---- MODULE Spec2Model ----
(***************************************************************************)
(* State-machine model of the SQLite cache (modules/database.py) and of    *)
(* the signal composer (modules/technical_indicators.py).                  *)
(*                                                                         *)
(* Text values that SQLite compares (dates, timestamps) are modelled as    *)
(* sequences of numbers compared lexicographically, the way the BINARY     *)
(* collation compares TEXT: a zero-padded fixed-width field (YYYY-MM-DD,   *)
(* HH:MM:SS) is one element, a separator character is its ASCII code.      *)
(***************************************************************************)
EXTENDS Integers, Sequences, FiniteSets, Bags, TLC

VARIABLES stock_prices,          \* table stock_prices: bag of rows
          institutional_trades,  \* table institutional_trades: bag of rows
          news_cache,            \* table news_cache: bag of rows
          query_logs,            \* table query_logs: bag of rows
          now,                   \* the clock, in ticks of UTC time
          tz,                    \* offset of local time to UTC, in ticks
          connOpen,              \* self.conn is open (close() not called)
          last,                  \* the last call: operation, arguments, outcome
          given,                 \* per symbol: the bars handed to save_stock_data
          sig_df,                \* get_daytrading_signals: the input frame
          signals,               \* get_daytrading_signals: the returned dict
          chart_df,              \* detect_*_crossovers: the input frame, row by row
          crossovers,            \* detect_*_crossovers: the returned lists, per pair
          sr_df,                 \* calculate_support_resistance: the input frame
          levels,                \* calculate_support_resistance: the returned dict
          sl_args,               \* calculate_stop_loss_take_profit: the arguments
          sl_tp,                 \* calculate_stop_loss_take_profit: the returned dict
          ind,                   \* calculate_technical_indicators: the frame and the result
          analyzer,              \* AIAnalyzer.search_news_events: the call and its requests
          fetcher,               \* data_fetcher.get_stock_data: the API, the calls, the results
          call_api,              \* AIAnalyzer._call_api: the state of the retry loop
          date_range             \* validate_date_range: the arguments and the result

\* the state of the chart and level functions
analysis == <<chart_df, crossovers, sr_df, levels>>

\* the state of the stop-loss helper
stops == <<sl_args, sl_tp>>

\* the state of the functions outside the cache, the signals, the chart and the levels
others == <<stops, ind, analyzer, fetcher, call_api, date_range>>

vars == <<stock_prices, institutional_trades, news_cache, query_logs,
          now, tz, connOpen, last, given, sig_df, signals,
          chart_df, crossovers, sr_df, levels, sl_args, sl_tp,
          ind, analyzer, fetcher, call_api, date_range>>

----------------------------------------------------------------------------
(* Bounds of the model *)

MaxDate == 2        \* bars are dated on the calendar days 1..MaxDate
TicksPerDay == 3    \* clock ticks per calendar day
MaxTime == 4        \* the clock runs for this many ticks
MaxDays == 1        \* cleanup_old_data(days) is called with days in 0..MaxDays
MaxNews == 2        \* at most this many news rows are stored
MaxLogs == 2        \* at most this many query_logs rows are stored

Symbols == {"2330", "2317"}
Dates == 1..MaxDate

\* two OHLCV value tuples satisfying high >= max(open,close) >= min(open,close) >= low
BarVals == { [open |-> 100, high |-> 105, low |-> 99, close |-> 104, volume |-> 2000],
             [open |-> 101, high |-> 103, low |-> 98, close |-> 99, volume |-> 3500] }

\* the DataFrames of bars with values in vals: one bar per date, for a set of dates
\* (no date: df.empty)
FramesOf(vals) == UNION { [D -> vals] : D \in SUBSET Dates }

PriceFrames == FramesOf(BarVals)

----------------------------------------------------------------------------
(* Text values and their comparison *)

SP == 32    \* ' ', the separator written by SQLite's datetime('now')
TT == 84    \* 'T', the separator written by datetime.isoformat()

\* str of a date / strftime('%Y-%m-%d'): the text 'YYYY-MM-DD' of calendar day d
DateStr(d) == <<d>>

\* TEXT comparison a < b of the BINARY collation (memcmp, a proper prefix is smaller)
RECURSIVE StrLT(_, _)
StrLT(a, b) ==
    IF a = <<>> THEN b # <<>>
    ELSE IF b = <<>> THEN FALSE
    ELSE IF Head(a) = Head(b) THEN StrLT(Tail(a), Tail(b))
    ELSE Head(a) < Head(b)

StrLE(a, b) == a = b \/ StrLT(a, b)

\* (a BETWEEN that leaves out its lower bound)
BetweenExclusive(x, lo, hi) == StrLT(lo, x) /\ StrLE(x, hi)

\* x BETWEEN lo AND hi
Between(x, lo, hi) == StrLE(lo, x) /\ StrLE(x, hi)

\* ORDER BY date (ascending) over a bag of rows: the rows as a sequence
RECURSIVE OrderByDate(_)
OrderByDate(B) ==
    IF BagToSet(B) = {} THEN <<>>
    ELSE LET S == BagToSet(B)
             m == CHOOSE r \in S : \A q \in S : ~StrLT(q.date, r.date)
         IN  <<m>> \o OrderByDate(B (-) SetToBag({m}))

\* the rows S of a table, with their multiplicity (the rows a WHERE clause selects)
Where(B, S) == [r \in S \cap BagToSet(B) |-> CopiesIn(r, B)]

\* DELETE FROM the table the rows S
DeleteWhere(B, S) == [r \in BagToSet(B) \ S |-> CopiesIn(r, B)]

\* number of rows of a table
RowCount(B) == BagCardinality(B)

----------------------------------------------------------------------------
(* stock_prices *)

\* df_save of save_stock_data: the frame's rows with the symbol column added,
\* the date cast to str and the seven basic columns selected
PriceRows(symbol, df) ==
    { [symbol |-> symbol, date |-> DateStr(d),
       open |-> df[d].open, high |-> df[d].high, low |-> df[d].low,
       close |-> df[d].close, volume |-> df[d].volume] : d \in DOMAIN df }

\* UNIQUE(symbol, date): inserting rows into tbl violates the constraint
UniqueViolation(tbl, rows) ==
    \E r \in rows : \E q \in BagToSet(tbl) : q.symbol = r.symbol /\ q.date = r.date

\* to_sql(if_exists='append', method='multi'): one multi-row INSERT
ToSqlAppend(tbl, rows) == tbl (+) SetToBag(rows)

\* the SELECT of get_stock_data: the symbol's rows dated in [start, end], by date
SelectPrices(tbl, symbol, start_date, end_date) ==
    LET hit == {r \in BagToSet(tbl) :
                    r.symbol = symbol /\ Between(r.date, start_date, end_date)}
        rows == OrderByDate(Where(tbl, hit))
    IN  [i \in 1..Len(rows) |->
            [date |-> rows[i].date, open |-> rows[i].open, high |-> rows[i].high,
             low |-> rows[i].low, close |-> rows[i].close, volume |-> rows[i].volume]]

\* an optional value: None, or Some(x)
None == <<>>
Some(x) == <<x>>

\* the record of a call: the operation, its arguments, what it returned (one field per
\* result type) and whether an exception reached the caller
NoCall ==
    [op |-> "init", symbol |-> "", df |-> None, range |-> None, days |-> 0, hours |-> 0,
     content |-> "", prices |-> None, inst |-> None, news |-> None, ok |-> TRUE,
     raised |-> FALSE, twice |-> FALSE]

\* what get_stock_data returns on a working connection: the frame, or None when empty
StockDataResult(tbl, symbol, start_date, end_date) ==
    LET df == SelectPrices(tbl, symbol, start_date, end_date)
    IN  IF df # <<>> THEN Some(df) ELSE None

\* the bars handed to save_stock_data for a symbol since it had no rows, as long as
\* the calls were over disjoint sets of dates (disjoint = FALSE afterwards)
GivenAfter(symbol, df) ==
    IF ~given[symbol].disjoint \/ DOMAIN df \cap DOMAIN given[symbol].bars # {}
    THEN [given EXCEPT ![symbol] = [disjoint |-> FALSE, bars |-> <<>>]]
    ELSE [given EXCEPT ![symbol].bars =
            [d \in DOMAIN df \cup DOMAIN given[symbol].bars |->
                IF d \in DOMAIN df THEN df[d] ELSE given[symbol].bars[d]]]

\* StockDatabase.save_stock_data(symbol, df), df None or Some(frame);
\* fault: a storage fault strikes to_sql
SaveStockData(symbol, df, fault) ==
    LET call == [NoCall EXCEPT !.op = "save_stock_data", !.symbol = symbol, !.df = df,
                    !.twice = (last.op = "save_stock_data" /\ last.symbol = symbol
                               /\ last.df = df)]
    IN
    /\ UNCHANGED <<institutional_trades, news_cache, query_logs, now, tz, connOpen,
                   sig_df, signals, analysis, others>>
    /\ IF df = None \/ DOMAIN df[1] = {}
       THEN /\ UNCHANGED <<stock_prices, given>>
            /\ last' = call
       ELSE LET df_save == PriceRows(symbol, df[1])
            IN  IF ~connOpen
                THEN \* to_sql raises, and so does the rollback in the handler
                     /\ UNCHANGED <<stock_prices, given>>
                     /\ last' = [call EXCEPT !.ok = FALSE, !.raised = TRUE]
                ELSE IF fault \/ UniqueViolation(stock_prices, df_save)
                THEN \* the exception is logged, the transaction rolled back
                     /\ UNCHANGED stock_prices
                     /\ given' = IF fault THEN given ELSE GivenAfter(symbol, df[1])
                     /\ last' = [call EXCEPT !.ok = FALSE]
                ELSE /\ stock_prices' = ToSqlAppend(stock_prices, df_save)
                     /\ given' = GivenAfter(symbol, df[1])
                     /\ last' = call

\* StockDatabase.get_stock_data(symbol, start_date, end_date); fault: read_sql_query raises
GetStockData(symbol, start_date, end_date, fault) ==
    /\ UNCHANGED <<stock_prices, institutional_trades, news_cache, query_logs, now, tz,
                   connOpen, given, sig_df, signals, analysis, others>>
    /\ last' = [NoCall EXCEPT !.op = "get_stock_data", !.symbol = symbol,
                  !.range = <<start_date, end_date>>,
                  !.ok = ~(fault \/ ~connOpen),
                  !.prices = IF fault \/ ~connOpen THEN None
                             ELSE StockDataResult(stock_prices, symbol, start_date, end_date)]

----------------------------------------------------------------------------
(* The price store *)

\* no detect_*_crossovers call has returned yet
NoCrossovers == [ma |-> None, kd |-> None, macd |-> None]

\* the chart and level functions have not been called and have no frame
NoAnalysis ==
    /\ chart_df = <<>>
    /\ crossovers = NoCrossovers
    /\ sr_df = None
    /\ levels = None

\* the stop-loss helper has not been called
NoStops == sl_args = None /\ sl_tp = None

\* none of the other functions has been called
NoOthers ==
    /\ NoStops
    /\ ind = None
    /\ analyzer = None
    /\ fetcher = None
    /\ call_api = None
    /\ date_range = None

InitTables ==
    /\ stock_prices = EmptyBag
    /\ institutional_trades = EmptyBag
    /\ news_cache = EmptyBag
    /\ query_logs = EmptyBag
    /\ connOpen = TRUE
    /\ last = NoCall
    /\ given = [s \in Symbols |-> [disjoint |-> TRUE, bars |-> <<>>]]
    /\ sig_df = None
    /\ signals = None
    /\ NoAnalysis
    /\ NoOthers

\* the clock starts MaxDays + 1 days after day 0
StartTime == TicksPerDay * (MaxDays + 1)

Init ==
    /\ InitTables
    /\ now = StartTime
    /\ tz = 0

OneBar == CHOOSE v \in BarVals : v.open = 100

\* save_stock_data calls: any frame for one symbol, frames of one bar value for the other
PutPrices ==
    \/ \E df \in {Some(f) : f \in PriceFrames} \cup {None} : SaveStockData("2330", df, FALSE)
    \/ \E df \in {Some(f) : f \in FramesOf({OneBar})} : SaveStockData("2317", df, FALSE)

GetPrices == \E s \in Symbols, a \in Dates, b \in Dates :
                GetStockData(s, DateStr(a), DateStr(b), FALSE)

Next == PutPrices \/ GetPrices

Spec == Init /\ [][Next]_vars

----------------------------------------------------------------------------
(* institutional_trades *)

RequiredColumns == {"date", "Foreign_Investor", "Investment_Trust", "Dealer_Self",
                    "Dealer_Hedging", "Dealer_Total", "Total"}

\* two rows of institutional flows (Total = Foreign + Trust + Dealer_Total)
InstVals == { [Foreign_Investor |-> 500, Investment_Trust |-> -200, Dealer_Self |-> 30,
               Dealer_Hedging |-> -10, Dealer_Total |-> 20, Total |-> 320],
              [Foreign_Investor |-> -50, Investment_Trust |-> 80, Dealer_Self |-> 0,
               Dealer_Hedging |-> 5, Dealer_Total |-> 5, Total |-> 35] }

\* a DataFrame of institutional rows: its columns, and one row per date
InstFrames == { [columns |-> c, data |-> f] :
                    c \in {RequiredColumns, RequiredColumns \ {"Total"}},
                    f \in UNION { [D -> InstVals] : D \in SUBSET Dates } }

\* strftime('%Y-%m-%d') of pd.to_datetime(date), and the lower-case column names
InstRow(symbol, d, v) ==
    [symbol |-> symbol, date |-> DateStr(d),
     foreign_investor |-> v.Foreign_Investor, investment_trust |-> v.Investment_Trust,
     dealer_self |-> v.Dealer_Self, dealer_hedging |-> v.Dealer_Hedging,
     dealer_total |-> v.Dealer_Total, total_institutional |-> v.Total]

\* INSERT OR REPLACE of one row under UNIQUE(symbol, date)
InsertOrReplaceInst(tbl, row) ==
    DeleteWhere(tbl, {q \in BagToSet(tbl) : q.symbol = row.symbol /\ q.date = row.date})
        (+) SetToBag({row})

\* the loop over df_copy.iterrows(): one INSERT OR REPLACE per row
RECURSIVE InsertAllInst(_, _, _)
InsertAllInst(tbl, symbol, data) ==
    IF DOMAIN data = {} THEN tbl
    ELSE LET d == CHOOSE x \in DOMAIN data : \A y \in DOMAIN data : x <= y
             rest == [x \in DOMAIN data \ {d} |-> data[x]]
         IN  InsertAllInst(InsertOrReplaceInst(tbl, InstRow(symbol, d, data[d])), symbol, rest)

\* DELETE FROM institutional_trades WHERE symbol = ?
DeleteSymbolInst(tbl, symbol) ==
    DeleteWhere(tbl, {q \in BagToSet(tbl) : q.symbol = symbol})

\* StockDatabase.save_institutional_data(symbol, df); fault: a storage fault strikes
\* one of the statements or the commit
\* (a handler that leaves the DELETE of the symbol's rows in effect)
NotRolledBack(tbl, symbol) == DeleteSymbolInst(tbl, symbol)

\* self.conn.rollback() in the handler of save_institutional_data: the DELETE and
\* the INSERTs made since the last commit are undone
RolledBack(tbl, symbol) == tbl

SaveInstitutionalData(symbol, df, fault) ==
    LET call == [NoCall EXCEPT !.op = "save_institutional_data", !.symbol = symbol, !.df = df]
    IN
    /\ UNCHANGED <<stock_prices, news_cache, query_logs, now, tz, connOpen, given,
                   sig_df, signals, analysis, others>>
    /\ IF df = None \/ DOMAIN df[1].data = {}
       THEN /\ UNCHANGED institutional_trades
            /\ last' = [call EXCEPT !.ok = FALSE]
       ELSE IF RequiredColumns \ df[1].columns # {}
       THEN /\ UNCHANGED institutional_trades
            /\ last' = [call EXCEPT !.ok = FALSE]
       ELSE IF ~connOpen
       THEN \* the DELETE raises, and so does the rollback in the handler
            /\ UNCHANGED institutional_trades
            /\ last' = [call EXCEPT !.ok = FALSE, !.raised = TRUE]
       ELSE IF fault
       THEN \* the exception is logged, the transaction rolled back
            /\ institutional_trades' = RolledBack(institutional_trades, symbol)
            /\ last' = [call EXCEPT !.ok = FALSE]
       ELSE /\ institutional_trades' =
                  InsertAllInst(DeleteSymbolInst(institutional_trades, symbol),
                                symbol, df[1].data)
            /\ last' = call

\* ORDER BY date DESC
RECURSIVE Reverse(_)
Reverse(q) == IF q = <<>> THEN <<>> ELSE Reverse(Tail(q)) \o <<Head(q)>>

\* LIMIT 90 of the query without a date range
InstLimit == 90

\* LIMIT n
Limit(q, n) == SubSeq(q, 1, IF Len(q) < n THEN Len(q) ELSE n)

\* the SELECT of get_institutional_data; range: None or Some(<<start, end>>)
SelectInst(tbl, symbol, range) ==
    LET hit == {r \in BagToSet(tbl) :
                  /\ r.symbol = symbol
                  /\ range # None => Between(r.date, range[1][1], range[1][2])}
        rows == Reverse(OrderByDate(Where(tbl, hit)))
        cut == IF range # None THEN rows ELSE Limit(rows, InstLimit)
    IN  [i \in 1..Len(cut) |->
            [date |-> cut[i].date,
             Foreign_Investor |-> cut[i].foreign_investor,
             Investment_Trust |-> cut[i].investment_trust,
             Dealer_Self |-> cut[i].dealer_self,
             Dealer_Hedging |-> cut[i].dealer_hedging,
             Dealer_Total |-> cut[i].dealer_total,
             Total |-> cut[i].total_institutional]]

\* what get_institutional_data returns on a working connection
InstDataResult(tbl, symbol, range) ==
    LET df == SelectInst(tbl, symbol, range)
    IN  IF df # <<>> THEN Some(df) ELSE None

\* StockDatabase.get_institutional_data(symbol, start_date, end_date)
GetInstitutionalData(symbol, range, fault) ==
    /\ UNCHANGED <<stock_prices, institutional_trades, news_cache, query_logs, now, tz,
                   connOpen, given, sig_df, signals, analysis, others>>
    /\ last' = [NoCall EXCEPT !.op = "get_institutional_data", !.symbol = symbol,
                  !.range = range,
                  !.ok = ~(fault \/ ~connOpen),
                  !.inst = IF fault \/ ~connOpen THEN None
                           ELSE InstDataResult(institutional_trades, symbol, range)]

PutInst == \E s \in Symbols, df \in {Some(f) : f \in InstFrames} \cup {None} :
                SaveInstitutionalData(s, df, FALSE)

GetInst == \E s \in Symbols :
              \/ GetInstitutionalData(s, None, FALSE)
              \/ \E a \in Dates, b \in Dates :
                    GetInstitutionalData(s, Some(<<DateStr(a), DateStr(b)>>), FALSE)

NextInst == PutInst \/ GetInst

SpecInst == Init /\ [][NextInst]_vars

----------------------------------------------------------------------------
(* Time stamps *)

\* datetime.now(): the local time
LocalNow == now + tz

\* datetime.isoformat() of the local time t: 'YYYY-MM-DDTHH:MM:SS.ffffff'
IsoFormat(t) == <<t \div TicksPerDay, TT, t % TicksPerDay>>

\* datetime('now') and CURRENT_TIMESTAMP of SQLite at UTC time t: 'YYYY-MM-DD HH:MM:SS'
SqlDatetime(t) == <<t \div TicksPerDay, SP, t % TicksPerDay>>

\* strftime('%Y-%m-%d') of the local time t
StrfDate(t) == DateStr(t \div TicksPerDay)

\* timedelta(days=n) and timedelta(hours=24), in ticks
DaysDelta(n) == n * TicksPerDay

----------------------------------------------------------------------------
(* news_cache and query_logs *)

Contents == {"news A", "news B"}

\* (a uniqueness constraint on the symbol alone)
NewsConflictSymbolOnly(q, row) == q.symbol = row.symbol

\* UNIQUE(symbol, created_at): row q of the table conflicts with the new row
NewsConflict(q, row) == q.symbol = row.symbol /\ q.created_at = row.created_at

\* INSERT OR REPLACE INTO news_cache: the conflicting rows are deleted, the row inserted
InsertOrReplaceNews(tbl, row) ==
    DeleteWhere(tbl, {q \in BagToSet(tbl) : NewsConflict(q, row)}) (+) SetToBag({row})

\* the row save_news_cache inserts; expires_hours is given in ticks
NewsRow(symbol, content, source, expires_hours) ==
    [symbol |-> symbol, content |-> content, source |-> source,
     created_at |-> SqlDatetime(now),
     expires_at |-> IsoFormat(LocalNow + expires_hours)]

\* StockDatabase.save_news_cache(symbol, content, source, expires_hours)
SaveNewsCache(symbol, content, source, expires_hours, fault) ==
    LET call == [NoCall EXCEPT !.op = "save_news_cache", !.symbol = symbol,
                               !.content = content, !.hours = expires_hours]
        row == NewsRow(symbol, content, source, expires_hours)
    IN
    /\ UNCHANGED <<stock_prices, institutional_trades, query_logs, now, tz, connOpen,
                   given, sig_df, signals, analysis, others>>
    /\ IF ~connOpen
       THEN \* the INSERT raises, and so does the rollback in the handler
            /\ UNCHANGED news_cache
            /\ last' = [call EXCEPT !.ok = FALSE, !.raised = TRUE]
       ELSE IF fault
       THEN /\ UNCHANGED news_cache
            /\ last' = [call EXCEPT !.ok = FALSE]
       ELSE /\ news_cache' = InsertOrReplaceNews(news_cache, row)
            /\ last' = call

\* ORDER BY created_at DESC LIMIT 1 over a set of rows: the rows created last
LatestCreated(S) == {r \in S : \A q \in S : ~StrLT(r.created_at, q.created_at)}

\* what get_news_cache returns on a working connection at UTC time t
NewsResult(tbl, symbol, t) ==
    LET hit == {r \in BagToSet(tbl) :
                   r.symbol = symbol /\ StrLT(SqlDatetime(t), r.expires_at)}
    IN  IF hit = {} THEN None
        ELSE LET r == CHOOSE x \in LatestCreated(hit) : TRUE
             IN  Some([content |-> r.content, source |-> r.source,
                       created_at |-> r.created_at])

\* StockDatabase.get_news_cache(symbol)
GetNewsCache(symbol, fault) ==
    /\ UNCHANGED <<stock_prices, institutional_trades, news_cache, query_logs, now, tz,
                   connOpen, given, sig_df, signals, analysis, others>>
    /\ last' = [NoCall EXCEPT !.op = "get_news_cache", !.symbol = symbol,
                  !.ok = ~(fault \/ ~connOpen),
                  !.news = IF fault \/ ~connOpen THEN None
                           ELSE NewsResult(news_cache, symbol, now)]

\* StockDatabase.log_query(symbol, query_type): the handler does not roll back
LogQuery(symbol, query_type, fault) ==
    LET call == [NoCall EXCEPT !.op = "log_query", !.symbol = symbol]
    IN
    /\ UNCHANGED <<stock_prices, institutional_trades, news_cache, now, tz, connOpen,
                   given, sig_df, signals, analysis, others>>
    /\ IF fault \/ ~connOpen
       THEN /\ UNCHANGED query_logs
            /\ last' = [call EXCEPT !.ok = FALSE]
       ELSE /\ query_logs' = query_logs (+) SetToBag({[symbol |-> symbol,
                                   query_type |-> query_type,
                                   created_at |-> SqlDatetime(now)]})
            /\ last' = call

\* StockDatabase.cleanup_old_data(days)
CleanupOldData(days, fault) ==
    LET call == [NoCall EXCEPT !.op = "cleanup_old_data", !.days = days]
        cutoff_date == StrfDate(LocalNow - DaysDelta(days))
        cutoff_datetime == IsoFormat(LocalNow - DaysDelta(days))
    IN
    /\ UNCHANGED <<now, tz, connOpen, given, sig_df, signals, analysis, others>>
    /\ IF ~connOpen
       THEN \* the first DELETE raises, and so does the rollback in the handler
            /\ UNCHANGED <<stock_prices, institutional_trades, news_cache, query_logs>>
            /\ last' = [call EXCEPT !.ok = FALSE, !.raised = TRUE]
       ELSE IF fault
       THEN /\ UNCHANGED <<stock_prices, institutional_trades, news_cache, query_logs>>
            /\ last' = [call EXCEPT !.ok = FALSE]
       ELSE /\ stock_prices' = DeleteWhere(stock_prices,
                    {r \in BagToSet(stock_prices) : StrLT(r.date, cutoff_date)})
            /\ institutional_trades' = DeleteWhere(institutional_trades,
                    {r \in BagToSet(institutional_trades) : StrLT(r.date, cutoff_date)})
            /\ news_cache' = DeleteWhere(news_cache,
                    {r \in BagToSet(news_cache) : StrLT(r.expires_at, SqlDatetime(now))})
            /\ query_logs' = DeleteWhere(query_logs,
                    {r \in BagToSet(query_logs) : StrLT(r.created_at, cutoff_datetime)})
            /\ last' = call

\* StockDatabase.close()
Close ==
    /\ connOpen
    /\ connOpen' = FALSE
    /\ last' = [NoCall EXCEPT !.op = "close"]
    /\ UNCHANGED <<stock_prices, institutional_trades, news_cache, query_logs, now, tz,
                   given, sig_df, signals, analysis, others>>

\* time passes
Tick ==
    /\ now < StartTime + MaxTime
    /\ now' = now + 1
    /\ last' = [NoCall EXCEPT !.op = "tick"]
    /\ UNCHANGED <<stock_prices, institutional_trades, news_cache, query_logs, tz,
                   connOpen, given, sig_df, signals, analysis, others>>

\* the offsets of local time to UTC, in ticks
TZOffsets == {-1, 0, 1}

\* the time-to-live values, in ticks: one tick, and 24 hours (the default)
TTLs == {1, DaysDelta(1)}

InitClock ==
    /\ InitTables
    /\ now = StartTime
    /\ tz \in TZOffsets

(* The news cache *)

PutNews == \E s \in Symbols, c \in Contents, h \in TTLs :
              /\ RowCount(news_cache) < MaxNews
                    \/ \E q \in BagToSet(news_cache) :
                           NewsConflict(q, NewsRow(s, c, "perplexity", h))
              /\ SaveNewsCache(s, c, "perplexity", h, FALSE)

GetNews == \E s \in Symbols : GetNewsCache(s, FALSE)

Cleanup == \E days \in 0..MaxDays : CleanupOldData(days, FALSE)

NextNews == PutNews \/ GetNews \/ Cleanup \/ Tick

SpecNews == InitClock /\ [][NextNews]_vars

(* Housekeeping over all four tables *)

OneInst == CHOOSE v \in InstVals : v.Total = 320

SomePrice == \E d \in Dates : SaveStockData("2330", Some([x \in {d} |-> OneBar]), FALSE)

SomeInst == \E d \in Dates :
               SaveInstitutionalData("2330",
                   Some([columns |-> RequiredColumns, data |-> [x \in {d} |-> OneInst]]), FALSE)

SomeNews == /\ RowCount(news_cache) < MaxNews
            /\ SaveNewsCache("2330", "news A", "perplexity", 1, FALSE)

SomeLog == /\ RowCount(query_logs) < MaxLogs
           /\ LogQuery("2330", "analysis", FALSE)

NextClean == SomePrice \/ SomeInst \/ SomeNews \/ SomeLog \/ Cleanup \/ Tick

SpecClean == InitClock /\ [][NextClean]_vars

(* Storage faults: any call may hit a fault, and the connection may be closed *)

FaultyPrice == \E d \in Dates, fault \in BOOLEAN :
                  \/ SaveStockData("2330", Some([x \in {d} |-> OneBar]), fault)
                  \/ GetStockData("2330", DateStr(d), DateStr(d), fault)

FaultyInst == \E d \in Dates, fault \in BOOLEAN :
                 \/ SaveInstitutionalData("2330",
                       Some([columns |-> RequiredColumns, data |-> [x \in {d} |-> OneInst]]),
                       fault)
                 \/ GetInstitutionalData("2330", None, fault)

FaultyNews == \E fault \in BOOLEAN :
                 \/ /\ RowCount(news_cache) < MaxNews
                    /\ SaveNewsCache("2330", "news A", "perplexity", 1, fault)
                 \/ GetNewsCache("2330", fault)

FaultyLog == \E fault \in BOOLEAN :
                /\ RowCount(query_logs) < MaxLogs
                /\ LogQuery("2330", "analysis", fault)

FaultyCleanup == \E days \in 0..MaxDays, fault \in BOOLEAN : CleanupOldData(days, fault)

\* save_institutional_data, struck by a storage fault or not: any frame for one
\* symbol, complete frames of one row value for the other
PutInstFaulty ==
    \E fault \in BOOLEAN :
       \/ \E df \in {Some(f) : f \in InstFrames} \cup {None} :
             SaveInstitutionalData("2330", df, fault)
       \/ \E D \in SUBSET Dates :
             SaveInstitutionalData("2317",
                Some([columns |-> RequiredColumns, data |-> [x \in D |-> OneInst]]), fault)

NextInstFault == PutInstFaulty \/ Close

SpecInstFault == Init /\ [][NextInstFault]_vars

NextFault == FaultyPrice \/ FaultyInst \/ FaultyNews \/ FaultyLog \/ FaultyCleanup
                \/ Close

SpecFault == Init /\ [][NextFault]_vars

----------------------------------------------------------------------------
(* get_daytrading_signals *)

\* the undefined marker of an indicator column (NaN): every comparison with it is false
NaN == -999999

GT(a, b) == a # NaN /\ b # NaN /\ a > b
LT(a, b) == a # NaN /\ b # NaN /\ a < b
GE(a, b) == a # NaN /\ b # NaN /\ a >= b

\* (a "not above" test that excludes equality)
LEStrict(a, b) == a # NaN /\ b # NaN /\ a < b

LE(a, b) == a # NaN /\ b # NaN /\ a <= b

\* the outcome of one rule: its contribution and the entries it appends to the list
Fired(d, label) == [d |-> d, s |-> <<label>>]
Quiet == [d |-> 0, s |-> <<>>]

\* (a golden cross that also fires while the lines still touch)
RuleMACDTouching(latest, prev) ==
    IF GE(latest.MACD, latest.MACD_signal) /\ LE(prev.MACD, prev.MACD_signal)
    THEN Fired(15, "MACD golden cross (buy)")
    ELSE IF LT(latest.MACD, latest.MACD_signal) /\ GE(prev.MACD, prev.MACD_signal)
    THEN Fired(-15, "MACD death cross (sell)")
    ELSE Quiet

\* 1. MACD
RuleMACD(latest, prev) ==
    IF GT(latest.MACD, latest.MACD_signal) /\ LE(prev.MACD, prev.MACD_signal)
    THEN Fired(15, "MACD golden cross (buy)")
    ELSE IF LT(latest.MACD, latest.MACD_signal) /\ GE(prev.MACD, prev.MACD_signal)
    THEN Fired(-15, "MACD death cross (sell)")
    ELSE Quiet

\* 2. KD
RuleKD(latest, prev) ==
    IF GT(latest.KD_K, latest.KD_D) /\ LE(prev.KD_K, prev.KD_D)
    THEN IF LT(latest.KD_K, 30)
         THEN Fired(20, "KD low golden cross (strong buy)")
         ELSE Fired(10, "KD golden cross (buy)")
    ELSE IF LT(latest.KD_K, latest.KD_D) /\ GE(prev.KD_K, prev.KD_D)
    THEN IF GT(latest.KD_K, 70)
         THEN Fired(-20, "KD high death cross (strong sell)")
         ELSE Fired(-10, "KD death cross (sell)")
    ELSE Quiet

\* 3. RSI
RuleRSI(latest) ==
    IF LT(latest.RSI, 30) THEN Fired(15, "RSI oversold (buy)")
    ELSE IF GT(latest.RSI, 70) THEN Fired(-15, "RSI overbought (sell)")
    ELSE Quiet

\* 4. Williams %R
RuleWilliams(latest) ==
    IF GT(latest.Williams_R, -20) THEN Fired(-10, "Williams %R overbought (sell)")
    ELSE IF LT(latest.Williams_R, -80) THEN Fired(10, "Williams %R oversold (buy)")
    ELSE Quiet

\* 5. ADX
RuleADX(latest) ==
    IF GT(latest.ADX, 25)
    THEN IF GT(latest.DI_plus, latest.DI_minus)
         THEN Fired(10, "ADX strong uptrend")
         ELSE Fired(-10, "ADX strong downtrend")
    ELSE Quiet

\* 6. CCI
RuleCCI(latest) ==
    IF GT(latest.CCI, 100) THEN Fired(-10, "CCI overbought (sell)")
    ELSE IF LT(latest.CCI, -100) THEN Fired(10, "CCI oversold (buy)")
    ELSE Quiet

\* 7. OBV divergence; old is df.iloc[-5]
RuleOBV(len, latest, old) ==
    IF len >= 5
    THEN LET price_trend == GT(latest.close, old.close)
             obv_trend == GT(latest.OBV, old.OBV)
         IN  IF price_trend /\ ~obv_trend THEN Fired(-15, "OBV top divergence (sell)")
             ELSE IF ~price_trend /\ obv_trend THEN Fired(15, "OBV bottom divergence (buy)")
             ELSE Quiet
    ELSE Quiet

\* 8. Bollinger breakout
RuleBollinger(latest) ==
    IF GT(latest.close, latest.BB_upper) THEN Fired(5, "above Bollinger upper")
    ELSE IF LT(latest.close, latest.BB_lower) THEN Fired(-5, "below Bollinger lower")
    ELSE Quiet

\* 9. volume
RuleVolume(latest) ==
    IF GT(latest.Volume_Ratio, 150) THEN Fired(5, "volume surge") ELSE Quiet

\* 10. momentum
RuleROC(latest) ==
    IF GT(latest.ROC_5, 5) THEN Fired(10, "strong short-term momentum")
    ELSE IF LT(latest.ROC_5, -5) THEN Fired(-10, "weak short-term momentum")
    ELSE Quiet

Max(a, b) == IF a > b THEN a ELSE b

\* (a minimum that always takes its first argument: no upper clamp)
MinLeft(a, b) == a

Min(a, b) == IF a < b THEN a ELSE b

\* (thresholds that exclude the scores 15 and -15)
RecommendationStrict(strength_score) ==
    IF strength_score >= 30 THEN "STRONG_BUY"
    ELSE IF strength_score > 15 THEN "BUY"
    ELSE IF strength_score <= -30 THEN "STRONG_SELL"
    ELSE IF strength_score < -15 THEN "SELL"
    ELSE "HOLD"

\* the recommendation, taken from strength_score
Recommendation(strength_score) ==
    IF strength_score >= 30 THEN "STRONG_BUY"
    ELSE IF strength_score >= 15 THEN "BUY"
    ELSE IF strength_score <= -30 THEN "STRONG_SELL"
    ELSE IF strength_score <= -15 THEN "SELL"
    ELSE "HOLD"

\* (a guard that lets a frame of one bar through)
GetDaytradingSignalsOneBar(df) ==
    IF df.len < 1 THEN None
    ELSE LET latest == df.latest
             prev == df.prev
             r == <<RuleMACD(latest, prev), RuleKD(latest, prev), RuleRSI(latest),
                    RuleWilliams(latest), RuleADX(latest), RuleCCI(latest),
                    RuleOBV(df.len, latest, df.old), RuleBollinger(latest),
                    RuleVolume(latest), RuleROC(latest)>>
             strength_score == r[1].d + r[2].d + r[3].d + r[4].d + r[5].d + r[6].d
                                 + r[7].d + r[8].d + r[9].d + r[10].d
         IN  Some([price |-> latest.close,
                   signals |-> r[1].s \o r[2].s \o r[3].s \o r[4].s \o r[5].s \o r[6].s
                                 \o r[7].s \o r[8].s \o r[9].s \o r[10].s,
                   strength_score |-> strength_score,
                   strength |-> Max(Min(strength_score, 100), -100),
                   recommendation |-> Recommendation(strength_score)])

\* get_daytrading_signals(df): None, or Some of the signals dict (with strength_score)
GetDaytradingSignals(df) ==
    IF df.len < 2 THEN None
    ELSE LET latest == df.latest
             prev == df.prev
             r == <<RuleMACD(latest, prev), RuleKD(latest, prev), RuleRSI(latest),
                    RuleWilliams(latest), RuleADX(latest), RuleCCI(latest),
                    RuleOBV(df.len, latest, df.old), RuleBollinger(latest),
                    RuleVolume(latest), RuleROC(latest)>>
             strength_score == r[1].d + r[2].d + r[3].d + r[4].d + r[5].d + r[6].d
                                 + r[7].d + r[8].d + r[9].d + r[10].d
         IN  Some([price |-> latest.close,
                   signals |-> r[1].s \o r[2].s \o r[3].s \o r[4].s \o r[5].s \o r[6].s
                                 \o r[7].s \o r[8].s \o r[9].s \o r[10].s,
                   strength_score |-> strength_score,
                   strength |-> Max(Min(strength_score, 100), -100),
                   recommendation |-> Recommendation(strength_score)])

\* the signal summary of main: the report's recommendation, strength and entries, or the
\* warning that no signal could be generated
SignalSummary(daytrading_signals) ==
    IF daytrading_signals # None
    THEN [shown |-> "report",
          recommendation |-> daytrading_signals[1].recommendation,
          strength |-> daytrading_signals[1].strength,
          signals |-> daytrading_signals[1].signals]
    ELSE [shown |-> "warning", recommendation |-> "", strength |-> 0, signals |-> <<>>]

(* The frames the signals are computed for.  The columns are grouped by the rule that *)
(* reads them; a frame takes every group from one profile except two groups, which    *)
(* range over all their values.                                                       *)

Groups == 1..10

GroupValues(g) ==
    CASE g = 1 -> { [pM |-> a, lM |-> b] : a \in {-1, 0, 1, NaN}, b \in {-1, 0, 1, NaN} }
      [] g = 2 -> { [pK |-> a, lK |-> b, lD |-> b + c] :
                        a \in {45, 50, 55, NaN}, b \in {20, 30, 50, 70, 80}, c \in {-5, 0, 5} }
                  \cup { [pK |-> 45, lK |-> NaN, lD |-> 50], [pK |-> 55, lK |-> 50, lD |-> NaN] }
      [] g = 3 -> { [RSI |-> a] : a \in {20, 30, 50, 70, 80, NaN} }
      [] g = 4 -> { [Williams_R |-> a] : a \in {-90, -80, -50, -20, -10, NaN} }
      [] g = 5 -> { [ADX |-> a, DI_plus |-> b, DI_minus |-> c] :
                        a \in {20, 25, 30, NaN}, b \in {20, 30, NaN}, c \in {20, 30} }
      [] g = 6 -> { [CCI |-> a] : a \in {-150, -100, 0, 100, 150, NaN} }
      [] g = 7 -> { [len |-> n, close |-> a, OBV |-> b] :
                        n \in {2, 5}, a \in {90, 100, 110}, b \in {900, 1000, 1100, NaN} }
      [] g = 8 -> { [BB_upper |-> a, BB_lower |-> a - 20] : a \in {85, 90, 100, 110, 120, 130} }
                  \cup { [BB_upper |-> NaN, BB_lower |-> NaN] }
      [] g = 9 -> { [Volume_Ratio |-> a] : a \in {100, 150, 200, NaN} }
      [] g = 10 -> { [ROC_5 |-> a] : a \in {-10, -5, 0, 5, 10, NaN} }

Profiles == {"quiet", "bull", "bear"}

ProfileGroup(p, g) ==
    CASE g = 1 -> IF p = "bull" THEN [pM |-> -1, lM |-> 1]
                  ELSE IF p = "bear" THEN [pM |-> 1, lM |-> -1] ELSE [pM |-> 1, lM |-> 1]
      [] g = 2 -> IF p = "bull" THEN [pK |-> 45, lK |-> 20, lD |-> 15]
                  ELSE IF p = "bear" THEN [pK |-> 55, lK |-> 80, lD |-> 85]
                  ELSE [pK |-> 55, lK |-> 50, lD |-> 45]
      [] g = 3 -> [RSI |-> IF p = "bull" THEN 20 ELSE IF p = "bear" THEN 80 ELSE 50]
      [] g = 4 -> [Williams_R |-> IF p = "bull" THEN -90 ELSE IF p = "bear" THEN -10 ELSE -50]
      [] g = 5 -> IF p = "bull" THEN [ADX |-> 30, DI_plus |-> 30, DI_minus |-> 20]
                  ELSE IF p = "bear" THEN [ADX |-> 30, DI_plus |-> 20, DI_minus |-> 30]
                  ELSE [ADX |-> 20, DI_plus |-> 20, DI_minus |-> 20]
      [] g = 6 -> [CCI |-> IF p = "bull" THEN -150 ELSE IF p = "bear" THEN 150 ELSE 0]
      [] g = 7 -> IF p = "bull" THEN [len |-> 5, close |-> 90, OBV |-> 1100]
                  ELSE IF p = "bear" THEN [len |-> 5, close |-> 110, OBV |-> 900]
                  ELSE [len |-> 5, close |-> 100, OBV |-> 1000]
      [] g = 8 -> IF p = "bull" THEN [BB_upper |-> 85, BB_lower |-> 65]
                  ELSE IF p = "bear" THEN [BB_upper |-> 130, BB_lower |-> 110]
                  ELSE [BB_upper |-> 120, BB_lower |-> 80]
      [] g = 9 -> [Volume_Ratio |-> IF p = "bull" THEN 200 ELSE 100]
      [] g = 10 -> [ROC_5 |-> IF p = "bull" THEN 10 ELSE IF p = "bear" THEN -10 ELSE 0]

\* the frame with these column groups: the rows df.iloc[-1], df.iloc[-2], df.iloc[-5]
\* (MACD_signal is 0 and KD_D of the previous bar is 50 in every frame)
SignalFrame(v) ==
    [len |-> v[7].len,
     latest |-> [MACD |-> v[1].lM, MACD_signal |-> 0, KD_K |-> v[2].lK, KD_D |-> v[2].lD,
                 RSI |-> v[3].RSI, Williams_R |-> v[4].Williams_R, ADX |-> v[5].ADX,
                 DI_plus |-> v[5].DI_plus, DI_minus |-> v[5].DI_minus, CCI |-> v[6].CCI,
                 close |-> v[7].close, OBV |-> v[7].OBV, BB_upper |-> v[8].BB_upper,
                 BB_lower |-> v[8].BB_lower, Volume_Ratio |-> v[9].Volume_Ratio,
                 ROC_5 |-> v[10].ROC_5],
     prev |-> [MACD |-> v[1].pM, MACD_signal |-> 0, KD_K |-> v[2].pK, KD_D |-> 50],
     old |-> [close |-> 100, OBV |-> 1000]]

\* a frame of fewer than two bars (empty, or one bar)
ShortFrame(n) == [SignalFrame([g \in Groups |-> ProfileGroup("quiet", g)]) EXCEPT !.len = n]

InitSig ==
    /\ stock_prices = EmptyBag
    /\ institutional_trades = EmptyBag
    /\ news_cache = EmptyBag
    /\ query_logs = EmptyBag
    /\ connOpen = TRUE
    /\ last = NoCall
    /\ given = [s \in Symbols |-> [disjoint |-> TRUE, bars |-> <<>>]]
    /\ now = StartTime
    /\ tz = 0
    /\ signals = None
    /\ NoAnalysis
    /\ NoOthers
    /\ \/ \E p \in Profiles, g \in Groups, h \in Groups :
            \E a \in GroupValues(g), b \in GroupValues(h) :
                sig_df = Some(SignalFrame([[x \in Groups |-> ProfileGroup(p, x)]
                                               EXCEPT ![g] = a, ![h] = b]))
       \/ \E n \in {0, 1} : sig_df = Some(ShortFrame(n))

\* the call get_daytrading_signals(df)
ComputeSignals ==
    /\ last.op = "init"
    /\ signals' = GetDaytradingSignals(sig_df[1])
    /\ last' = [NoCall EXCEPT !.op = "get_daytrading_signals"]
    /\ UNCHANGED <<stock_prices, institutional_trades, news_cache, query_logs, now, tz,
                   connOpen, given, sig_df, analysis, others>>

NextSig == ComputeSignals

SpecSig == InitSig /\ [][NextSig]_vars


----------------------------------------------------------------------------
(* detect_ma_crossovers, detect_kd_crossovers, detect_macd_crossovers *)

\* the loop "for i in range(1, len(df))" over the rows 2..n of df (rows count from 1):
\* the crossings of column a over column b, each as (date, value of column v)
RECURSIVE Crossovers(_, _, _, _, _)
Crossovers(df, a, b, v, n) ==
    IF n < 2 THEN [golden |-> <<>>, death |-> <<>>]
    ELSE LET acc == Crossovers(df, a, b, v, n - 1)
             point == <<df[n].date, df[n][v]>>
         IN  [golden |-> IF LE(df[n - 1][a], df[n - 1][b]) /\ GT(df[n][a], df[n][b])
                         THEN Append(acc.golden, point) ELSE acc.golden,
              death |-> IF GE(df[n - 1][a], df[n - 1][b]) /\ LT(df[n][a], df[n][b])
                        THEN Append(acc.death, point) ELSE acc.death]

detect_ma_crossovers(df) == Crossovers(df, "MA5", "MA20", "close", Len(df))

detect_kd_crossovers(df) == Crossovers(df, "KD_K", "KD_D", "KD_K", Len(df))

detect_macd_crossovers(df) == Crossovers(df, "MACD", "MACD_signal", "MACD", Len(df))

\* the calls of the three functions on stock_data
DetectMa ==
    /\ crossovers.ma = None
    /\ crossovers' = [crossovers EXCEPT !.ma = Some(detect_ma_crossovers(chart_df))]
    /\ UNCHANGED <<stock_prices, institutional_trades, news_cache, query_logs, now, tz,
                   connOpen, last, given, sig_df, signals, chart_df, sr_df, levels, others>>

DetectKd ==
    /\ crossovers.kd = None
    /\ crossovers' = [crossovers EXCEPT !.kd = Some(detect_kd_crossovers(chart_df))]
    /\ UNCHANGED <<stock_prices, institutional_trades, news_cache, query_logs, now, tz,
                   connOpen, last, given, sig_df, signals, chart_df, sr_df, levels, others>>

DetectMacd ==
    /\ crossovers.macd = None
    /\ crossovers' = [crossovers EXCEPT !.macd = Some(detect_macd_crossovers(chart_df))]
    /\ UNCHANGED <<stock_prices, institutional_trades, news_cache, query_logs, now, tz,
                   connOpen, last, given, sig_df, signals, chart_df, sr_df, levels, others>>

(* The frames the crossings are detected in.  One pair of lines follows any pattern of *)
(* (line A, line B) values, the other two pairs keep one value over the whole frame.   *)

MaxBars == 3

\* the values of a pair of lines at one bar, line A relative to line B
PairVals == { [a |-> -1, b |-> 0], [a |-> 0, b |-> 0], [a |-> 1, b |-> 0],
              [a |-> NaN, b |-> 0], [a |-> 0, b |-> NaN] }

Pairs == {"ma", "kd", "macd"}

\* a column value at distance x from its base value
Offset(base, x, scale) == IF x = NaN THEN NaN ELSE base + scale * x

\* row d of stock_data, with the pairs at the values ma, kd, macd
ChartBar(d, ma, kd, macd) ==
    [date |-> DateStr(d), close |-> 100,
     MA5 |-> Offset(100, ma.a, 1), MA20 |-> Offset(100, ma.b, 1),
     KD_K |-> Offset(50, kd.a, 10), KD_D |-> Offset(50, kd.b, 10),
     MACD |-> macd.a, MACD_signal |-> macd.b]

ChartFrames ==
    UNION { { [d \in 1..n |-> ChartBar(d, IF r = "ma" THEN p[d] ELSE c,
                                          IF r = "kd" THEN p[d] ELSE c,
                                          IF r = "macd" THEN p[d] ELSE c)] :
                  p \in [1..n -> PairVals], c \in PairVals, r \in Pairs } : n \in 0..MaxBars }

\* the rows df.iloc[-1], df.iloc[-2], df.iloc[-5] of stock_data, as get_daytrading_signals
\* reads them (the columns the chart functions do not read are those of a quiet frame)
SignalView(df) ==
    LET n == Len(df)
        quiet == SignalFrame([g \in Groups |-> ProfileGroup("quiet", g)])
    IN  IF n < 2 THEN ShortFrame(n)
        ELSE [len |-> n,
              latest |-> [quiet.latest EXCEPT !.MACD = df[n].MACD,
                                              !.MACD_signal = df[n].MACD_signal,
                                              !.KD_K = df[n].KD_K, !.KD_D = df[n].KD_D,
                                              !.close = df[n].close],
              prev |-> [MACD |-> df[n - 1].MACD, MACD_signal |-> df[n - 1].MACD_signal,
                        KD_K |-> df[n - 1].KD_K, KD_D |-> df[n - 1].KD_D],
              old |-> IF n >= 5 THEN [quiet.old EXCEPT !.close = df[n - 4].close]
                      ELSE quiet.old]

InitChart ==
    /\ stock_prices = EmptyBag
    /\ institutional_trades = EmptyBag
    /\ news_cache = EmptyBag
    /\ query_logs = EmptyBag
    /\ connOpen = TRUE
    /\ last = NoCall
    /\ given = [s \in Symbols |-> [disjoint |-> TRUE, bars |-> <<>>]]
    /\ now = StartTime
    /\ tz = 0
    /\ signals = None
    /\ crossovers = NoCrossovers
    /\ sr_df = None
    /\ levels = None
    /\ NoOthers
    /\ chart_df \in ChartFrames
    /\ sig_df = Some(SignalView(chart_df))

NextChart == DetectMa \/ DetectKd \/ DetectMacd \/ ComputeSignals

SpecChart == InitChart /\ [][NextChart]_vars


----------------------------------------------------------------------------
(* calculate_support_resistance *)

\* one level: its price, its description and its strength
Level(price, desc, strength) == [price |-> price, desc |-> desc, strength |-> strength]

\* "if c: levels.append(x)"
Cond(c, x) == IF c THEN <<x>> ELSE <<>>

\* df.tail(n)
TailRows(df, n) == IF Len(df) <= n THEN df ELSE SubSeq(df, Len(df) - n + 1, Len(df))

\* the number of trailing rows searched for local highs and lows
RecentRows == 20

\* the loop over the rows 2..n of recent (rows count from 1): the local highs above price
RECURSIVE LocalHighs(_, _, _)
LocalHighs(recent, price, n) ==
    IF n < 2 THEN <<>>
    ELSE LocalHighs(recent, price, n - 1)
         \o Cond(/\ GT(recent[n].high, recent[n - 1].high)
                 /\ GT(recent[n].high, recent[n + 1].high)
                 /\ GT(recent[n].high, price),
                 Level(recent[n].high, <<"recent high", recent[n].date>>, "medium"))

\* the loop over the rows 2..n of recent: the local lows below price
RECURSIVE LocalLows(_, _, _)
LocalLows(recent, price, n) ==
    IF n < 2 THEN <<>>
    ELSE LocalLows(recent, price, n - 1)
         \o Cond(/\ LT(recent[n].low, recent[n - 1].low)
                 /\ LT(recent[n].low, recent[n + 1].low)
                 /\ LT(recent[n].low, price),
                 Level(recent[n].low, <<"recent low", recent[n].date>>, "medium"))

\* (an ATR test that lets every defined value through)
AtrUsableDefined(atr_value) == atr_value # NaN

\* "pd.notna(atr_value) and atr_value > 0"
AtrUsable(atr_value) == GT(atr_value, 0)

\* support_levels before sorting, in the order of the appends
SupportCandidates(rows, latest) ==
    LET current_price == latest.close
        recent == TailRows(rows, RecentRows)
        Ma(name, v) == Cond(GT(v, 0) /\ LT(v, current_price), Level(v, <<name>>, "medium"))
    IN  Ma("MA5 support", latest.MA5) \o Ma("MA10 support", latest.MA10)
        \o Ma("MA20 support", latest.MA20) \o Ma("MA60 support", latest.MA60)
        \o Cond(LT(latest.BB_lower, current_price),
                Level(latest.BB_lower, <<"Bollinger lower support">>, "strong"))
        \o Cond(GT(latest.SAR, 0) /\ LT(latest.SAR, current_price),
                Level(latest.SAR, <<"SAR trailing stop">>, "strong"))
        \o Cond(GT(latest.VWAP, 0) /\ LT(latest.VWAP, current_price),
                Level(latest.VWAP, <<"VWAP support">>, "strong"))
        \o LocalLows(recent, current_price, Len(recent) - 1)
        \o Cond(AtrUsable(latest.ATR),
                Level(current_price - latest.ATR * 2, <<"ATR 2x stop">>, "strong"))

\* resistance_levels before sorting, in the order of the appends
ResistanceCandidates(rows, latest) ==
    LET current_price == latest.close
        recent == TailRows(rows, RecentRows)
        Ma(name, v) == Cond(GT(v, 0) /\ ~LT(v, current_price) /\ GT(v, current_price),
                            Level(v, <<name>>, "medium"))
    IN  Ma("MA5 resistance", latest.MA5) \o Ma("MA10 resistance", latest.MA10)
        \o Ma("MA20 resistance", latest.MA20) \o Ma("MA60 resistance", latest.MA60)
        \o Cond(GT(latest.BB_upper, current_price),
                Level(latest.BB_upper, <<"Bollinger upper resistance">>, "strong"))
        \o Cond(GT(latest.SAR, 0) /\ ~LT(latest.SAR, current_price),
                Level(latest.SAR, <<"SAR resistance">>, "strong"))
        \o Cond(GT(latest.VWAP, 0) /\ ~LT(latest.VWAP, current_price),
                Level(latest.VWAP, <<"VWAP resistance">>, "strong"))
        \o LocalHighs(recent, current_price, Len(recent) - 1)
        \o Cond(AtrUsable(latest.ATR),
                Level(current_price + latest.ATR * 2, <<"ATR 2x target">>, "medium"))

\* x placed into the sorted list behind the entries that do not come after it
InsertByPrice(sorted, x, reverse) ==
    LET k == Cardinality({ i \in 1..Len(sorted) :
                              IF reverse THEN sorted[i].price >= x.price
                                         ELSE sorted[i].price <= x.price })
    IN  SubSeq(sorted, 1, k) \o <<x>> \o SubSeq(sorted, k + 1, Len(sorted))

\* sorted(levels, key=price, reverse=reverse): stable
RECURSIVE SortedByPrice(_, _)
SortedByPrice(ls, reverse) ==
    IF ls = <<>> THEN <<>>
    ELSE InsertByPrice(SortedByPrice(SubSeq(ls, 1, Len(ls) - 1), reverse),
                       ls[Len(ls)], reverse)

\* tolerance = 0.005, as the fraction ToleranceNum / ToleranceDen
ToleranceNum == 5
ToleranceDen == 1000

Abs(x) == IF x < 0 THEN -x ELSE x

\* (a test that also keeps a level at exactly the tolerance)
FartherThanToleranceOrAt(price, kept) ==
    IF kept > 0 THEN Abs(price - kept) * ToleranceDen >= ToleranceNum * kept
    ELSE IF kept = 0 THEN price # 0
    ELSE FALSE

\* "abs(price - kept) / kept > tolerance"; the quotient of two floats is infinite for
\* kept = 0 (not a number for 0 / 0) and not positive for a negative kept
FartherThanTolerance(price, kept) ==
    IF kept > 0 THEN Abs(price - kept) * ToleranceDen > ToleranceNum * kept
    ELSE IF kept = 0 THEN price # 0
    ELSE FALSE

\* the loop of remove_close_levels over levels[1:]
RECURSIVE FilterClose(_, _)
FilterClose(filtered, rest) ==
    IF rest = <<>> THEN filtered
    ELSE FilterClose(IF FartherThanTolerance(Head(rest).price, filtered[Len(filtered)].price)
                     THEN Append(filtered, Head(rest)) ELSE filtered,
                     Tail(rest))

remove_close_levels(ls) ==
    IF ls = <<>> THEN <<>> ELSE FilterClose(<<ls[1]>>, Tail(ls))

\* (a slice that keeps one entry more)
TakeOneMore(ls, n) == SubSeq(ls, 1, IF n + 1 < Len(ls) THEN n + 1 ELSE Len(ls))

\* levels[:n], for n >= 0
Take(ls, n) == SubSeq(ls, 1, IF n < Len(ls) THEN n ELSE Len(ls))

\* calculate_support_resistance(df, num_levels): the returned dict, and the two lists as
\* they are before sorting (cand_), after sorting (sorted_) and after remove_close_levels
\* (kept_)
calculate_support_resistance(df, num_levels) ==
    LET latest == df.latest
        cs == SupportCandidates(df.rows, latest)
        cr == ResistanceCandidates(df.rows, latest)
        ss == SortedByPrice(cs, TRUE)
        sr == SortedByPrice(cr, FALSE)
        ks == remove_close_levels(ss)
        kr == remove_close_levels(sr)
    IN  [support |-> Take(ks, num_levels),
         resistance |-> Take(kr, num_levels),
         current_price |-> latest.close,
         cand_support |-> cs, cand_resistance |-> cr,
         sorted_support |-> ss, sorted_resistance |-> sr,
         kept_support |-> ks, kept_resistance |-> kr]

(* The frames the levels are computed for: df.rows are the date, high and low of every  *)
(* row, df.latest the other columns of the last row.  Prices are whole numbers.  The    *)
(* columns are grouped; a frame takes every group from one profile except two groups,   *)
(* which range over all their values.                                                   *)

MaxRows == 4

CurrentClose == 1000

\* the (high, low) of a row
RowVals == { [high |-> 1010, low |-> 990], [high |-> 1030, low |-> 970],
             [high |-> 1005, low |-> 995] }

RowsOf(hl) == [d \in 1..Len(hl) |-> [date |-> DateStr(d), high |-> hl[d].high, low |-> hl[d].low]]

\* a column that is missing reads as 0
LineVals == {NaN, 0, 790, 796, 800, 997, 1000, 1003, 1005, 1010}

LevelGroups == 1..10

LevelGroupValues(g) ==
    CASE g \in 1..4 -> LineVals
      [] g = 5 -> { [BB_upper |-> NaN, BB_lower |-> NaN], [BB_upper |-> 0, BB_lower |-> 0],
                    [BB_upper |-> 1020, BB_lower |-> 980], [BB_upper |-> 1005, BB_lower |-> 995],
                    [BB_upper |-> 990, BB_lower |-> 970], [BB_upper |-> 1030, BB_lower |-> 1010],
                    [BB_upper |-> 1200, BB_lower |-> -50] }
      [] g \in 6..7 -> LineVals
      [] g = 8 -> {NaN, 0, 1, 50, 500, 600}
      [] g = 9 -> UNION { { RowsOf(hl) : hl \in [1..n -> RowVals] } : n \in 1..MaxRows }
      [] g = 10 -> {1, 2, 3}

LevelProfiles == {"bare", "dense"}

LevelProfileGroup(p, g) ==
    IF p = "bare"
    THEN CASE g \in 1..4 -> NaN
           [] g = 5 -> [BB_upper |-> NaN, BB_lower |-> NaN]
           [] g \in 6..7 -> NaN
           [] g = 8 -> NaN
           [] g = 9 -> RowsOf(<<[high |-> 1010, low |-> 990]>>)
           [] g = 10 -> 3
    ELSE CASE g = 1 -> 1003
           [] g = 2 -> 1010
           [] g = 3 -> 997
           [] g = 4 -> 800
           [] g = 5 -> [BB_upper |-> 1020, BB_lower |-> 980]
           [] g = 6 -> 1000
           [] g = 7 -> 796
           [] g = 8 -> 50
           [] g = 9 -> RowsOf(<<[high |-> 1010, low |-> 990], [high |-> 1030, low |-> 970],
                                [high |-> 1010, low |-> 990]>>)
           [] g = 10 -> 3

\* the call's arguments with these column groups
LevelFrame(v) ==
    [rows |-> v[9],
     latest |-> [close |-> CurrentClose, MA5 |-> v[1], MA10 |-> v[2], MA20 |-> v[3], MA60 |-> v[4],
                 BB_upper |-> v[5].BB_upper, BB_lower |-> v[5].BB_lower,
                 SAR |-> v[6], VWAP |-> v[7], ATR |-> v[8]],
     num_levels |-> v[10]]

InitLevels ==
    /\ stock_prices = EmptyBag
    /\ institutional_trades = EmptyBag
    /\ news_cache = EmptyBag
    /\ query_logs = EmptyBag
    /\ connOpen = TRUE
    /\ last = NoCall
    /\ given = [s \in Symbols |-> [disjoint |-> TRUE, bars |-> <<>>]]
    /\ now = StartTime
    /\ tz = 0
    /\ sig_df = None
    /\ signals = None
    /\ chart_df = <<>>
    /\ crossovers = NoCrossovers
    /\ levels = None
    /\ NoOthers
    /\ \E p \in LevelProfiles, g \in LevelGroups, h \in LevelGroups :
          \E a \in LevelGroupValues(g), b \in LevelGroupValues(h) :
              sr_df = Some(LevelFrame([[x \in LevelGroups |-> LevelProfileGroup(p, x)]
                                           EXCEPT ![g] = a, ![h] = b]))

\* the call calculate_support_resistance(df, num_levels)
ComputeLevels ==
    /\ last.op = "init"
    /\ levels' = Some(calculate_support_resistance(sr_df[1], sr_df[1].num_levels))
    /\ last' = [NoCall EXCEPT !.op = "calculate_support_resistance"]
    /\ UNCHANGED <<stock_prices, institutional_trades, news_cache, query_logs, now, tz,
                   connOpen, given, sig_df, signals, chart_df, crossovers, sr_df, others>>

NextLevels == ComputeLevels

SpecLevels == InitLevels /\ [][NextLevels]_vars


----------------------------------------------------------------------------
(* calculate_stop_loss_take_profit *)

(* Amounts are counted in ten-thousandths: 1000000 is 100.00.  A float that lies halfway *)
(* between two hundredths is rounded to either of them, as its binary value decides.    *)

\* the number of ten-thousandths in one hundredth
Hundredth == 100

\* (a rounding that cuts off the digits after the second decimal)
RoundDown2(x, up) == (x \div Hundredth) * Hundredth

\* round(x, 2); up tells where a value halfway between two hundredths goes
Round2(x, up) ==
    LET q == x \div Hundredth
        m == x % Hundredth
    IN  IF 2 * m > Hundredth \/ (2 * m = Hundredth /\ up)
        THEN (q + 1) * Hundredth ELSE q * Hundredth

\* atr * 1.5 and atr * 2.5
Times15(atr) == (atr * 15) \div 10
Times25(atr) == (atr * 25) \div 10

\* the keys of the returned dict that are rounded
StopKeys == {"stop_loss", "take_profit", "conservative_stop", "aggressive_stop",
             "risk_amount", "reward_amount"}

\* calculate_stop_loss_take_profit(current_price, atr, risk_reward_ratio); ties[k] tells
\* where the value of key k goes when it lies halfway between two hundredths
calculate_stop_loss_take_profit(current_price, atr, risk_reward_ratio, ties) ==
    LET stop_loss == current_price - (atr * 2)
        take_profit == current_price + (atr * 2 * risk_reward_ratio)
        conservative_stop == current_price - Times15(atr)
        aggressive_stop == current_price - Times25(atr)
    IN  [stop_loss |-> Round2(stop_loss, ties["stop_loss"]),
         take_profit |-> Round2(take_profit, ties["take_profit"]),
         conservative_stop |-> Round2(conservative_stop, ties["conservative_stop"]),
         aggressive_stop |-> Round2(aggressive_stop, ties["aggressive_stop"]),
         risk_amount |-> Round2(current_price - stop_loss, ties["risk_amount"]),
         reward_amount |-> Round2(take_profit - current_price, ties["reward_amount"]),
         risk_reward_ratio |-> risk_reward_ratio]

\* prices of at most two decimals: 100.00, 123.45, 2.00, 0.05
StopPrices == {1000000, 1234500, 20000, 500}

\* ATR values: 0, 0.001, 0.005, 0.01, 1.232, 1.234, 2, 2.01, 2.5, 60
StopAtrs == {0, 10, 50, 100, 12320, 12340, 20000, 20100, 25000, 600000}

StopRatios == {1, 2, 3}

InitStops ==
    /\ stock_prices = EmptyBag
    /\ institutional_trades = EmptyBag
    /\ news_cache = EmptyBag
    /\ query_logs = EmptyBag
    /\ connOpen = TRUE
    /\ last = NoCall
    /\ given = [s \in Symbols |-> [disjoint |-> TRUE, bars |-> <<>>]]
    /\ now = StartTime
    /\ tz = 0
    /\ sig_df = None
    /\ signals = None
    /\ NoAnalysis
    /\ ind = None /\ analyzer = None /\ fetcher = None /\ call_api = None
    /\ date_range = None
    /\ sl_tp = None
    /\ \E p \in StopPrices, a \in StopAtrs, r \in StopRatios :
          sl_args = Some([current_price |-> p, atr |-> a, risk_reward_ratio |-> r])

\* the call calculate_stop_loss_take_profit(current_price, atr, risk_reward_ratio)
ComputeStops ==
    /\ last.op = "init"
    /\ \E ties \in [StopKeys -> BOOLEAN] :
          sl_tp' = Some(calculate_stop_loss_take_profit(sl_args[1].current_price,
                            sl_args[1].atr, sl_args[1].risk_reward_ratio, ties))
    /\ last' = [NoCall EXCEPT !.op = "calculate_stop_loss_take_profit"]
    /\ UNCHANGED <<stock_prices, institutional_trades, news_cache, query_logs, now, tz,
                   connOpen, given, sig_df, signals, analysis, sl_args,
                   ind, analyzer, fetcher, call_api, date_range>>

NextStops == ComputeStops

SpecStops == InitStops /\ [][NextStops]_vars

--------------------------------------------------------------------------------
(* calculate_technical_indicators: the columns the function computes itself      *)

\* everything outside the indicator function, as the other functions leave it
store == <<stock_prices, institutional_trades, news_cache, query_logs, now, tz,
           connOpen, given, sig_df, signals, analysis>>

\* the database after construction, no signal and no analysis computed yet
NoStore ==
    /\ stock_prices = EmptyBag
    /\ institutional_trades = EmptyBag
    /\ news_cache = EmptyBag
    /\ query_logs = EmptyBag
    /\ connOpen = TRUE
    /\ given = [s \in Symbols |-> [disjoint |-> TRUE, bars |-> <<>>]]
    /\ now = StartTime
    /\ tz = 0
    /\ sig_df = None
    /\ signals = None
    /\ NoAnalysis

\* the column of a frame
Column(df, name) == [i \in 1..Len(df) |-> df[i][name]]

RECURSIVE SumOf(_, _, _)
\* col[a] + ... + col[b]
SumOf(col, a, b) == IF a > b THEN 0 ELSE col[b] + SumOf(col, a, b - 1)

\* Series.rolling(window=w).mean(): NaN until the window is full
RollingMean(col, w) ==
    [i \in 1..Len(col) |-> IF i < w THEN NaN ELSE SumOf(col, i - w + 1, i) \div w]

\* Series.shift(k): NaN at the first k positions
Shift(col, k) == [i \in 1..Len(col) |-> IF i <= k THEN NaN ELSE col[i - k]]

\* ((close - close.shift(k)) / close.shift(k)) * 100
ROC(close, k) ==
    [i \in 1..Len(close) |->
        IF Shift(close, k)[i] = NaN THEN NaN
        ELSE ((close[i] - Shift(close, k)[i]) * 100) \div Shift(close, k)[i]]

\* np.maximum(high - low, np.maximum(|high - close.shift(1)|, |low - close.shift(1)|)):
\* np.maximum propagates the NaN of the first position
TrueRange(df) ==
    [i \in 1..Len(df) |->
        IF Shift(Column(df, "close"), 1)[i] = NaN THEN NaN
        ELSE Max(df[i].high - df[i].low,
                 Max(Abs(df[i].high - Shift(Column(df, "close"), 1)[i]),
                     Abs(df[i].low - Shift(Column(df, "close"), 1)[i])))]

\* calculate_technical_indicators(df): the function has no check of its input
\* and no raise statement; every column is computed from the bars as given
calculate_technical_indicators(df) ==
    [raised      |-> FALSE,
     Volume_MA5  |-> RollingMean(Column(df, "volume"), 5),
     Volume_MA20 |-> RollingMean(Column(df, "volume"), 20),
     ROC_5       |-> ROC(Column(df, "close"), 5),
     ROC_10      |-> ROC(Column(df, "close"), 10),
     True_Range  |-> TrueRange(df)]

\* the longest frame: one bar more than the longest window computed here
MaxIndBars == 21

\* a well-formed bar
PlainBar == [open |-> 100, high |-> 100, low |-> 100, close |-> 100, volume |-> 20]

\* the bars put at one position of a frame: well-formed ones, and bars with
\* high below low, close above high, open below low, a negative low, a negative volume
OddBars ==
    { [open |-> 100, high |-> 200, low |-> 50, close |-> 200, volume |-> 40],
      [open |-> 50, high |-> 100, low |-> 50, close |-> 50, volume |-> 0],
      [open |-> 100, high |-> 50, low |-> 100, close |-> 100, volume |-> 20],
      [open |-> 100, high |-> 100, low |-> 100, close |-> 200, volume |-> 20],
      [open |-> 50, high |-> 100, low |-> 100, close |-> 100, volume |-> 20],
      [open |-> 100, high |-> 100, low |-> -50, close |-> 100, volume |-> 20],
      [open |-> 100, high |-> 100, low |-> 100, close |-> 100, volume |-> -20] }

\* the frames: plain bars, at most one of them replaced
IndFrames ==
    UNION { {[i \in 1..n |-> PlainBar]} \cup
            {[i \in 1..n |-> IF i = p THEN b ELSE PlainBar] : p \in 1..n, b \in OddBars}
            : n \in 1..MaxIndBars }

InitInd ==
    /\ NoStore
    /\ NoStops
    /\ last = NoCall
    /\ analyzer = None /\ fetcher = None /\ call_api = None /\ date_range = None
    /\ \E df \in IndFrames : ind = Some([df |-> df, out |-> None])

\* the call calculate_technical_indicators(df)
ComputeIndicators ==
    /\ ind # None
    /\ ind[1].out = None
    /\ ind' = Some([ind[1] EXCEPT !.out = Some(calculate_technical_indicators(ind[1].df))])
    /\ last' = [NoCall EXCEPT !.op = "calculate_technical_indicators"]
    /\ UNCHANGED <<store, stops, analyzer, fetcher, call_api, date_range>>

NextInd == ComputeIndicators

SpecInd == InitInd /\ [][NextInd]_vars


--------------------------------------------------------------------------------
(* AIAnalyzer.search_news_events over the news cache *)

\* the default of max_retries in _call_api
DefaultRetries == 2

\* what one call of _call_api can come to: a result or None, after one request
\* or more, at most max_retries
ApiRuns == {[ok |-> o, requests |-> n] : o \in BOOLEAN, n \in 1..DefaultRetries}

\* _get_fallback_news(symbol)
FallbackNews(requests) ==
    [content |-> "fallback", is_fallback |-> TRUE, source |-> "fallback",
     requests |-> requests]

\* self.db.get_news_cache(symbol, max_age_hours=24): get_news_cache(self, symbol)
\* has no parameter max_age_hours, the call raises TypeError before the method runs
CachedNews(symbol) == [raised |-> TRUE, value |-> None]

\* AIAnalyzer.search_news_events(symbol, force_update), the whole method: the
\* cache lookup, the two calls of _call_api with the requests they make, the
\* save of the summary, and the handler that turns every exception into the
\* fallback result
SearchNewsEvents(symbol, force_update) ==
    LET call == [NoCall EXCEPT !.op = "search_news_events", !.symbol = symbol]
        a == [analyzer[1] EXCEPT !.force_update = force_update]
        cached_news == CachedNews(symbol)
    IN
    /\ analyzer # None
    /\ last' = call
    /\ UNCHANGED <<stock_prices, institutional_trades, query_logs, now, tz, connOpen,
                   given, sig_df, signals, analysis, stops, ind, fetcher, call_api,
                   date_range>>
    /\ IF ~force_update /\ cached_news.raised
       THEN \* except Exception: the fallback, no request made
            /\ UNCHANGED news_cache
            /\ analyzer' = Some([a EXCEPT !.result = Some(FallbackNews(0))])
       ELSE IF ~force_update /\ cached_news.value # None
       THEN /\ UNCHANGED news_cache
            /\ analyzer' = Some([a EXCEPT !.result =
                   Some([content |-> cached_news.value[1].content, is_fallback |-> FALSE,
                         source |-> "cache", requests |-> 0])])
       ELSE IF ~a.api_key
       THEN /\ UNCHANGED news_cache
            /\ analyzer' = Some([a EXCEPT !.result = Some(FallbackNews(0))])
       ELSE \E search \in ApiRuns :
               IF ~search.ok
               THEN /\ UNCHANGED news_cache
                    /\ analyzer' = Some([a EXCEPT !.result =
                                           Some(FallbackNews(search.requests))])
               ELSE \E summary \in ApiRuns, news_content \in Contents :
                       LET n == search.requests + summary.requests IN
                       IF ~summary.ok
                       THEN /\ UNCHANGED news_cache
                            /\ analyzer' = Some([a EXCEPT !.result = Some(FallbackNews(n))])
                       ELSE IF ~connOpen
                       THEN \* save_news_cache raises in its handler
                            /\ UNCHANGED news_cache
                            /\ analyzer' = Some([a EXCEPT !.result = Some(FallbackNews(n))])
                       ELSE /\ news_cache' = InsertOrReplaceNews(news_cache,
                                   NewsRow(symbol, news_content, "perplexity", DaysDelta(1)))
                            /\ analyzer' = Some([a EXCEPT !.result =
                                   Some([content |-> news_content, is_fallback |-> FALSE,
                                         source |-> "api", requests |-> n])])

\* an analyzer with or without an API key, over an empty database
InitAnalyzer ==
    /\ stock_prices = EmptyBag
    /\ institutional_trades = EmptyBag
    /\ news_cache = EmptyBag
    /\ query_logs = EmptyBag
    /\ connOpen = TRUE
    /\ last = NoCall
    /\ given = [s \in Symbols |-> [disjoint |-> TRUE, bars |-> <<>>]]
    /\ now = StartTime
    /\ tz \in TZOffsets
    /\ sig_df = None
    /\ signals = None
    /\ NoAnalysis
    /\ NoStops
    /\ ind = None /\ fetcher = None /\ call_api = None /\ date_range = None
    /\ \E k \in BOOLEAN :
          analyzer = Some([api_key |-> k, force_update |-> FALSE, result |-> None])

SearchNews == \E s \in Symbols, f \in BOOLEAN :
                 /\ f => \/ RowCount(news_cache) < MaxNews
                         \/ \E q \in BagToSet(news_cache) :
                               NewsConflict(q, NewsRow(s, "news A", "perplexity", DaysDelta(1)))
                 /\ SearchNewsEvents(s, f)

NextAnalyzer == SearchNews \/ Tick

SpecAnalyzer == InitAnalyzer /\ [][NextAnalyzer]_vars

--------------------------------------------------------------------------------
(* data_fetcher: validate_date_range and get_stock_data *)

\* a date written without zero padding ('2024-1-5'), which strptime accepts too
Unpadded(d) == <<d, 0>>

\* texts that are not dates: the empty text, and a date followed by more text
MalformedDates == {<<>>, <<1, SP, 1>>}

\* datetime.strptime(s, "%Y-%m-%d") succeeds
Parses(s) == Len(s) \in {1, 2} /\ (Len(s) = 2 => s[2] = 0)

\* datetime.strptime(s, "%Y-%m-%d").date(): the calendar day
Strptime(s) == s[1]

\* datetime.now().date()
Today == LocalNow \div TicksPerDay

\* the days the handler of validate_date_range goes back from today
FallbackDays == 30

\* (a validation that clamps the end date only)
ValidateEndOnly(start_date, end_date) ==
    IF Parses(start_date) /\ Parses(end_date)
    THEN LET end == IF Strptime(end_date) > Today THEN Today ELSE Strptime(end_date)
             start == Strptime(start_date)
         IN  IF start > end THEN <<DateStr(end), DateStr(start)>>
             ELSE <<DateStr(start), DateStr(end)>>
    ELSE <<DateStr(Today - FallbackDays), DateStr(Today)>>

\* validate_date_range(start_date, end_date): both dates are clamped to today,
\* then put in order; a text that does not parse gives the last 30 days
validate_date_range(start_date, end_date) ==
    IF Parses(start_date) /\ Parses(end_date)
    THEN LET end == IF Strptime(end_date) > Today THEN Today ELSE Strptime(end_date)
             start == IF Strptime(start_date) > Today THEN Today ELSE Strptime(start_date)
         IN  IF start > end THEN <<DateStr(end), DateStr(start)>>
             ELSE <<DateStr(start), DateStr(end)>>
    ELSE <<DateStr(Today - FallbackDays), DateStr(Today)>>

\* the days given to validate_date_range: past days, today, days to come
ArgDays == 0..(MaxDate + 2)

\* the texts given to validate_date_range
DateTexts == {DateStr(d) : d \in ArgDays} \cup {Unpadded(d) : d \in ArgDays}
                \cup MalformedDates

\* no call yet, at any offset of local time
InitDates == InitClock

\* the call validate_date_range(start_date, end_date)
ValidateDateRange ==
    \E s \in DateTexts, e \in DateTexts :
        /\ date_range' = Some([start_date |-> s, end_date |-> e, today |-> Today,
                               out |-> validate_date_range(s, e)])
        /\ last' = [NoCall EXCEPT !.op = "validate_date_range"]
        /\ UNCHANGED <<store, stops, ind, analyzer, fetcher, call_api>>

NextDates == ValidateDateRange \/ Tick

SpecDates == InitDates /\ [][NextDates]_vars

\* symbol.replace('.TW', '')
StockCode(symbol) == IF symbol = "2330.TW" THEN "2330" ELSE symbol

\* (a lookup that is skipped on every call)
CachedDataSkipped(stock_code, start_date, end_date, force_update) == None

\* cached_data of get_stock_data: db.get_stock_data unless force_update; None when
\* the range has no stored row (or the read failed)
CachedData(stock_code, start_date, end_date, force_update) ==
    IF force_update \/ ~connOpen THEN None
    ELSE StockDataResult(stock_prices, stock_code, start_date, end_date)

\* the bars the API returns for the request: the market's bars of the stock
\* dated within [start_date, end_date], as a frame sorted by date
ApiData(market, stock_code, start_date, end_date) ==
    [d \in {x \in DOMAIN market[stock_code] :
               Between(DateStr(x), start_date, end_date)} |-> market[stock_code][d]]

\* the bars of the frame get_stock_data returns, with the date as text: the frame
\* read back from the table has text dates, the frame built from the API
\* response has timestamps
BarsOfResult(result) ==
    IF result.source = "cache"
    THEN result.df
    ELSE LET days == DOMAIN result.df
             sorted == OrderByDate(SetToBag({[date |-> DateStr(d)] : d \in days}))
         IN  [i \in 1..Len(sorted) |->
                LET d == CHOOSE x \in days : DateStr(x) = sorted[i].date
                IN  [date |-> DateStr(d), open |-> result.df[d].open,
                     high |-> result.df[d].high, low |-> result.df[d].low,
                     close |-> result.df[d].close, volume |-> result.df[d].volume]]

\* get_stock_data(symbol, start_date, end_date, token, force_update), the whole
\* function; api: the request succeeds with status 200, or fails
get_stock_data(symbol, start_date, end_date, force_update, api) ==
    LET stock_code == StockCode(symbol)
        range == validate_date_range(start_date, end_date)
        cached_data == CachedData(stock_code, range[1], range[2], force_update)
        df == ApiData(fetcher[1].market, stock_code, range[1], range[2])
        df_save == PriceRows(stock_code, df)
        args == [symbol |-> symbol, start_date |-> start_date, end_date |-> end_date,
                 force_update |-> force_update]
        f == [fetcher[1] EXCEPT !.args = Some(args)]
    IN
    /\ fetcher # None
    /\ last' = [NoCall EXCEPT !.op = "data_fetcher.get_stock_data", !.symbol = symbol]
    /\ UNCHANGED <<institutional_trades, news_cache, query_logs, now, tz, connOpen,
                   sig_df, signals, analysis, stops, ind, analyzer, call_api, date_range>>
    /\ IF cached_data # None
       THEN /\ UNCHANGED <<stock_prices, given>>
            /\ fetcher' = Some([f EXCEPT !.requests = 0, !.stored = FALSE,
                    !.result = Some([source |-> "cache", df |-> cached_data[1]])])
       ELSE IF api # "ok" \/ DOMAIN df = {}
       THEN \* the request fails, the status is not 200, or no data is returned
            /\ UNCHANGED <<stock_prices, given>>
            /\ fetcher' = Some([f EXCEPT !.requests = 1, !.stored = FALSE,
                                         !.result = None])
       ELSE IF ~connOpen
       THEN \* save_stock_data raises in its handler: except Exception, None
            /\ UNCHANGED <<stock_prices, given>>
            /\ fetcher' = Some([f EXCEPT !.requests = 1, !.stored = FALSE,
                                         !.result = None])
       ELSE IF UniqueViolation(stock_prices, df_save)
       THEN \* save_stock_data logs the error and rolls back; the frame is returned
            /\ UNCHANGED stock_prices
            /\ given' = GivenAfter(stock_code, df)
            /\ fetcher' = Some([f EXCEPT !.requests = 1, !.stored = FALSE,
                    !.result = Some([source |-> "api", df |-> df])])
       ELSE /\ stock_prices' = ToSqlAppend(stock_prices, df_save)
            /\ given' = GivenAfter(stock_code, df)
            /\ fetcher' = Some([f EXCEPT !.requests = 1, !.stored = TRUE,
                    !.result = Some([source |-> "api", df |-> df])])

\* the symbols get_stock_data is called with
FetchSymbols == {"2330", "2330.TW"}

\* the bars the API has: every day up to MaxDate for one stock, or the last day
\* only; none for the other stock
Markets ==
    { [s \in Symbols |-> IF s = "2330" THEN [d \in D |-> OneBar] ELSE <<>>]
        : D \in {Dates, {MaxDate}} }

\* the date ranges get_stock_data is called with: days up to the day after
\* MaxDate in order, one range in reverse order, one with a text that is not a date
FetchRanges ==
    {<<DateStr(r[1]), DateStr(r[2])>> :
        r \in {p \in (1..(MaxDate + 1)) \X (1..(MaxDate + 1)) : p[1] <= p[2]}}
        \cup {<<DateStr(MaxDate + 1), DateStr(1)>>, <<<<>>, DateStr(1)>>}

InitFetch ==
    /\ NoStore
    /\ NoStops
    /\ last = NoCall
    /\ ind = None /\ analyzer = None /\ call_api = None /\ date_range = None
    /\ \E m \in Markets :
          fetcher = Some([market |-> m, args |-> None, requests |-> 0,
                          stored |-> FALSE, result |-> None])

FetchStockData ==
    \E symbol \in FetchSymbols, r \in FetchRanges,
       force_update \in BOOLEAN, api \in {"ok", "error"} :
          get_stock_data(symbol, r[1], r[2], force_update, api)

NextFetch == FetchStockData \/ Tick

SpecFetch == InitFetch /\ [][NextFetch]_vars

--------------------------------------------------------------------------------
(* AIAnalyzer._call_api: the retry loop *)

\* the largest max_retries a call is made with (the default is DefaultRetries)
MaxRetries == 3

\* how one requests.post ends: a well-formed answer, HTTP 401, HTTP 429, a
\* timeout, another request error (raise_for_status included), or an exception
\* of another kind (a response of an unexpected shape)
HttpOutcomes == {"200", "401", "429", "timeout", "request_error", "unexpected"}

\* (a loop that runs one more iteration)
InRangeInclusive(attempt, max_retries) == attempt <= max_retries

\* for attempt in range(max_retries): the loop body runs for this attempt
InRange(attempt, max_retries) == attempt < max_retries

\* the state of the call after the request of this iteration ended with outcome o
AfterRequest(c, o) ==
    LET r == [c EXCEPT !.requests = c.requests + 1, !.outcomes = Append(c.outcomes, o)]
    IN  IF o = "200" THEN [r EXCEPT !.pc = "done", !.result = "dict"]
        ELSE IF o = "401" THEN [r EXCEPT !.pc = "done", !.result = "None"]
        ELSE IF o = "429"
        THEN IF c.attempt < c.max_retries - 1
             THEN \* time.sleep(10 * (attempt + 1)); continue
                  [r EXCEPT !.attempt = c.attempt + 1]
             ELSE [r EXCEPT !.pc = "done", !.result = "None"]
        ELSE IF o \in {"timeout", "request_error"}
        THEN \* the handler sleeps unless this was the last attempt; next iteration
             [r EXCEPT !.attempt = c.attempt + 1]
        ELSE \* except Exception: break, then return None
             [r EXCEPT !.pc = "done", !.result = "None"]

InitCallApi ==
    /\ NoStore
    /\ NoStops
    /\ last = NoCall
    /\ ind = None /\ analyzer = None /\ fetcher = None /\ date_range = None
    /\ \E n \in 0..MaxRetries :
          call_api = Some([max_retries |-> n, attempt |-> 0, requests |-> 0,
                           outcomes |-> <<>>, pc |-> "for", result |-> "pending"])

\* one iteration of the loop: the request and the handling of its outcome
Request ==
    /\ call_api # None
    /\ call_api[1].pc = "for"
    /\ InRange(call_api[1].attempt, call_api[1].max_retries)
    /\ \E o \in HttpOutcomes : call_api' = Some(AfterRequest(call_api[1], o))
    /\ last' = [NoCall EXCEPT !.op = "_call_api"]
    /\ UNCHANGED <<store, stops, ind, analyzer, fetcher, date_range>>

\* the loop is exhausted: return None
ForExit ==
    /\ call_api # None
    /\ call_api[1].pc = "for"
    /\ ~InRange(call_api[1].attempt, call_api[1].max_retries)
    /\ call_api' = Some([call_api[1] EXCEPT !.pc = "done", !.result = "None"])
    /\ last' = [NoCall EXCEPT !.op = "_call_api"]
    /\ UNCHANGED <<store, stops, ind, analyzer, fetcher, date_range>>

NextCallApi == Request \/ ForExit

SpecCallApi == InitCallApi /\ [][NextCallApi]_vars

\* the call runs on one thread; requests.post is given a timeout and the sleeps
\* are finite, so an iteration that can run does run
SpecCallApiLive == SpecCallApi /\ WF_vars(NextCallApi)

----------------------------------------------------------------------------
(* Claims about the price store *)

\* the (date, open, high, low, close, volume) tuple of the bar of frame df at day d
BarTuple(df, d) ==
    [date |-> DateStr(d), open |-> df[d].open, high |-> df[d].high, low |-> df[d].low,
     close |-> df[d].close, volume |-> df[d].volume]

\* the rows a get_stock_data over [a, b] returns for day d
RowsOfDay(tbl, symbol, a, b, d) ==
    LET r == SelectPrices(tbl, symbol, DateStr(a), DateStr(b))
    IN  {i \in 1..Len(r) : r[i].date = DateStr(d)}

\* the step is a save_stock_data call with a non-empty frame
IsSaveStep == last'.op = "save_stock_data" /\ last'.df # None /\ DOMAIN last'.df[1] # {}

\* day d of symbol s is stored in tbl with values other than those of frame df
StoredDifferent(tbl, s, df, d) ==
    \E q \in BagToSet(tbl) : /\ q.symbol = s /\ q.date = DateStr(d)
                             /\ [BarTuple(df, d) EXCEPT !.date = q.date]
                                  # [date |-> q.date, open |-> q.open, high |-> q.high,
                                     low |-> q.low, close |-> q.close, volume |-> q.volume]

Stored(tbl, s, d) == \E q \in BagToSet(tbl) : q.symbol = s /\ q.date = DateStr(d)

\* C1: after save_stock_data(symbol, bars) where a date of bars is stored for the symbol
\* with other OHLCV values, a get_stock_data over any range containing the date returns
\* exactly one row for it, carrying the newly supplied values.
C1_OverwriteOnConflict ==
    [][IsSaveStep =>
        LET s == last'.symbol
            df == last'.df[1]
        IN  \A d \in DOMAIN df : StoredDifferent(stock_prices, s, df, d) =>
              \A a \in Dates, b \in Dates : (a <= d /\ d <= b) =>
                LET r == SelectPrices(stock_prices', s, DateStr(a), DateStr(b))
                IN  /\ Cardinality(RowsOfDay(stock_prices', s, a, b, d)) = 1
                    /\ \A i \in RowsOfDay(stock_prices', s, a, b, d) : r[i] = BarTuple(df, d)
      ]_vars

\* C2: after save_stock_data(symbol, bars) with bars holding both stored and not yet
\* stored dates, a get_stock_data over the batch's date range returns a row for every
\* date of the batch.
C2_MixedBatchStored ==
    [][IsSaveStep =>
        LET s == last'.symbol
            df == last'.df[1]
            D == DOMAIN df
            lo == CHOOSE d \in D : \A e \in D : d <= e
            hi == CHOOSE d \in D : \A e \in D : e <= d
        IN  ((\E d \in D : Stored(stock_prices, s, d)) /\ (\E d \in D : ~Stored(stock_prices, s, d)))
            => \A d \in D : RowsOfDay(stock_prices', s, lo, hi, d) # {}
      ]_vars

\* at most one row per (symbol, date)
AtMostOneRowPerKey(tbl) ==
    \A r \in BagToSet(tbl) :
        /\ CopiesIn(r, tbl) = 1
        /\ \A q \in BagToSet(tbl) : (q.symbol = r.symbol /\ q.date = r.date) => q = r

\* C3: the store holds at most one row per (symbol, date), and after save_stock_data was
\* called twice with identical data there is exactly one row for each (symbol, date) of
\* that data.
C3_OneRowPerKey ==
    /\ AtMostOneRowPerKey(stock_prices)
    /\ (last.op = "save_stock_data" /\ last.twice /\ last.df # None) =>
          \A d \in DOMAIN last.df[1] :
             RowCount(Where(stock_prices,
                            {r \in BagToSet(stock_prices) :
                                r.symbol = last.symbol /\ r.date = DateStr(d)})) = 1

\* the i-th smallest element of a set of days
NthDay(D, i) == CHOOSE d \in D : Cardinality({e \in D : e < d}) = i - 1

\* C4: bars with distinct dates saved for a symbol without stored rows, in one call or in
\* several calls over disjoint date subsets in any order, are returned by get_stock_data
\* over any range covering the dates as exactly the same tuples, in ascending date order.
C4_RoundTrip ==
    \A s \in Symbols :
        (given[s].disjoint /\ DOMAIN given[s].bars # {}) =>
            LET df == given[s].bars
                D == DOMAIN df
            IN  \A a \in Dates, b \in Dates :
                  ((\A d \in D : a <= d /\ d <= b)) =>
                    LET res == StockDataResult(stock_prices, s, DateStr(a), DateStr(b))
                    IN  /\ res # None
                        /\ Len(res[1]) = Cardinality(D)
                        /\ \A i \in 1..Len(res[1]) : res[1][i] = BarTuple(df, NthDay(D, i))

\* C4 witness: the bar of day 1 was saved in a call of its own after the bar of a later day
C4_Witness ==
    /\ last.op = "save_stock_data" /\ last.df # None /\ last.ok
    /\ DOMAIN last.df[1] = {1}
    /\ given[last.symbol].disjoint
    /\ Cardinality(DOMAIN given[last.symbol].bars) >= 2

----------------------------------------------------------------------------
(* Claims about the institutional store *)

\* the step is a save_institutional_data call that stored its frame
IsInstSaveStep == last'.op = "save_institutional_data" /\ last'.ok

\* C5: save_institutional_data(symbol, rows) leaves the rows stored earlier for the same
\* symbol at dates that do not occur in rows in the store, still returned by
\* get_institutional_data, and leaves the rows of other symbols untouched.
C5_InstUpsertFrame ==
    [][IsInstSaveStep =>
        \A q \in BagToSet(institutional_trades) :
            (q.symbol # last'.symbol
                \/ \A d \in DOMAIN last'.df[1].data : q.date # DateStr(d))
            => /\ CopiesIn(q, institutional_trades') = CopiesIn(q, institutional_trades)
               /\ LET res == InstDataResult(institutional_trades', q.symbol, None)
                  IN  res # None /\ \E i \in 1..Len(res[1]) : res[1][i].date = q.date
      ]_vars

----------------------------------------------------------------------------
(* Claims about the news cache, housekeeping and storage faults *)

\* the UTC time at which a row with this created_at was inserted
CreatedInstant(r) == r.created_at[1] * TicksPerDay + r.created_at[3]

\* the UTC time at which a news row expires: its creation time plus its time to live
ExpiryInstant(r) == r.expires_at[1] * TicksPerDay + r.expires_at[3] - tz

\* C6: a record stored by save_news_cache(symbol, content, expires_hours=h) at time t, the
\* only record of its symbol, is returned by get_news_cache(symbol) at every time before
\* t+h and is absent (None) at every time after t+h.
C6_NewsTTL ==
    \A s \in Symbols :
        LET rows == {r \in BagToSet(news_cache) : r.symbol = s}
        IN  (Cardinality(rows) = 1 /\ \A r \in rows : CopiesIn(r, news_cache) = 1) =>
              \A r \in rows :
                 /\ now < ExpiryInstant(r) =>
                        /\ NewsResult(news_cache, s, now) # None
                        /\ NewsResult(news_cache, s, now)[1].content = r.content
                 /\ now > ExpiryInstant(r) => NewsResult(news_cache, s, now) = None

\* a news row of the state is gone, or altered, in the next state
NewsRowLost(r) == CopiesIn(r, news_cache') < CopiesIn(r, news_cache)

AllKept(tbl, tbl2, keep) == \A r \in keep : CopiesIn(r, tbl2) = CopiesIn(r, tbl)

\* C8: after cleanup_old_data(days) no stock_prices or institutional_trades row dated before
\* (today - days), no query_logs row created before (now - days) and no news_cache row whose
\* expiry has passed remains; every price, institutional and log row not older than the
\* cutoff and every news row that has not expired is kept.
C8_CleanupExact ==
    [][(last'.op = "cleanup_old_data" /\ last'.ok) =>
        LET cutoffDay == (LocalNow \div TicksPerDay) - last'.days
            cutoffInstant == now - DaysDelta(last'.days)
        IN  /\ \A r \in BagToSet(stock_prices') : r.date[1] >= cutoffDay
            /\ \A r \in BagToSet(institutional_trades') : r.date[1] >= cutoffDay
            /\ \A r \in BagToSet(query_logs') : CreatedInstant(r) >= cutoffInstant
            /\ \A r \in BagToSet(news_cache') : ExpiryInstant(r) >= now
            /\ AllKept(stock_prices, stock_prices',
                       {r \in BagToSet(stock_prices) : r.date[1] >= cutoffDay})
            /\ AllKept(institutional_trades, institutional_trades',
                       {r \in BagToSet(institutional_trades) : r.date[1] >= cutoffDay})
            /\ AllKept(query_logs, query_logs',
                       {r \in BagToSet(query_logs) : CreatedInstant(r) >= cutoffInstant})
            /\ AllKept(news_cache, news_cache',
                       {r \in BagToSet(news_cache) : ExpiryInstant(r) > now})
      ]_vars

\* C9: no operation lets a storage fault reach its caller: a read that hits a fault
\* returns None, a write that hits a fault returns normally.
C9_NoFaultPropagates ==
    /\ ~last.raised
    /\ (last.op \in {"get_stock_data", "get_institutional_data", "get_news_cache"} /\ ~last.ok)
          => (last.prices = None /\ last.inst = None /\ last.news = None)

----------------------------------------------------------------------------
(* Claims about get_daytrading_signals *)

\* the value is defined (not NaN)
Defined(x) == x # NaN

\* line a crosses above line b between the previous bar and the latest bar
GoldenCross(pa, pb, la, lb) ==
    Defined(pa) /\ Defined(pb) /\ Defined(la) /\ Defined(lb) /\ pa - pb <= 0 /\ la - lb > 0

\* line a crosses below line b between the previous bar and the latest bar
DeathCross(pa, pb, la, lb) ==
    Defined(pa) /\ Defined(pb) /\ Defined(la) /\ Defined(lb) /\ pa - pb >= 0 /\ la - lb < 0

\* the contribution of a rule: x if its condition holds, nothing otherwise
Contribution(cond, x) == IF cond THEN x ELSE 0

\* the sum the rule table gives for the MACD, KD, RSI, Williams %R, CCI, Bollinger,
\* volume and ROC rules
TableScore(latest, prev) ==
    LET macdG == GoldenCross(prev.MACD, prev.MACD_signal, latest.MACD, latest.MACD_signal)
        macdD == DeathCross(prev.MACD, prev.MACD_signal, latest.MACD, latest.MACD_signal)
        kdG == GoldenCross(prev.KD_K, prev.KD_D, latest.KD_K, latest.KD_D)
        kdD == DeathCross(prev.KD_K, prev.KD_D, latest.KD_K, latest.KD_D)
    IN  Contribution(macdG, 15) + Contribution(macdD, -15)
        + Contribution(kdG /\ latest.KD_K < 30, 20) + Contribution(kdG /\ latest.KD_K >= 30, 10)
        + Contribution(kdD /\ latest.KD_K > 70, -20) + Contribution(kdD /\ latest.KD_K <= 70, -10)
        + Contribution(Defined(latest.RSI) /\ latest.RSI < 30, 15)
        + Contribution(Defined(latest.RSI) /\ latest.RSI > 70, -15)
        + Contribution(Defined(latest.Williams_R) /\ latest.Williams_R > -20, -10)
        + Contribution(Defined(latest.Williams_R) /\ latest.Williams_R < -80, 10)
        + Contribution(Defined(latest.CCI) /\ latest.CCI > 100, -10)
        + Contribution(Defined(latest.CCI) /\ latest.CCI < -100, 10)
        + Contribution(Defined(latest.BB_upper) /\ latest.close > latest.BB_upper, 5)
        + Contribution(Defined(latest.BB_lower) /\ latest.close < latest.BB_lower, -5)
        + Contribution(Defined(latest.Volume_Ratio) /\ latest.Volume_Ratio > 150, 5)
        + Contribution(Defined(latest.ROC_5) /\ latest.ROC_5 > 5, 10)
        + Contribution(Defined(latest.ROC_5) /\ latest.ROC_5 < -5, -10)

\* what the entries of the ADX and OBV rules in the triggered list stand for
RECURSIVE TrendEntries(_)
TrendEntries(list) ==
    IF list = <<>> THEN 0
    ELSE TrendEntries(Tail(list))
         + (CASE Head(list) = "ADX strong uptrend" -> 10
              [] Head(list) = "ADX strong downtrend" -> -10
              [] Head(list) = "OBV top divergence (sell)" -> -15
              [] Head(list) = "OBV bottom divergence (buy)" -> 15
              [] OTHER -> 0)

\* C10: the raw score is the sum of the contributions of exactly those rules of the table
\* (MACD, KD, RSI, Williams %R, CCI, Bollinger, volume, ROC5) whose condition holds, next
\* to what the ADX and OBV entries of the triggered list contribute; when only the MACD
\* golden cross fires the score is +15 and the recommendation is BUY.
C10_AdditiveScore ==
    (last.op = "get_daytrading_signals" /\ signals # None) =>
        LET out == signals[1]
            df == sig_df[1]
        IN  /\ out.strength_score = TableScore(df.latest, df.prev) + TrendEntries(out.signals)
            /\ out.signals = <<"MACD golden cross (buy)">> =>
                  (out.strength_score = 15 /\ out.strength = 15 /\ out.recommendation = "BUY")

\* C10 witness: a report in which only the MACD golden cross fired
C10_Witness ==
    /\ last.op = "get_daytrading_signals" /\ signals # None
    /\ signals[1].signals = <<"MACD golden cross (buy)">>
    /\ signals[1].strength_score = 15
    /\ signals[1].recommendation = "BUY"

\* a report was returned by get_daytrading_signals
Reported == last.op = "get_daytrading_signals" /\ signals # None

\* C11: the reported strength is an integer in [-100, 100] for every combination of fired
\* rules: a raw sum above 100 is reported as 100, one below -100 as -100, and a raw sum
\* inside the range is reported unchanged.
C11_StrengthClamped ==
    Reported =>
        LET out == signals[1]
        IN  /\ out.strength \in -100..100
            /\ out.strength_score > 100 => out.strength = 100
            /\ out.strength_score < -100 => out.strength = -100
            /\ out.strength_score \in -100..100 => out.strength = out.strength_score

\* C11 witness: a report whose raw sum exceeds 100 and whose strength is the bound
C11_Witness ==
    Reported /\ signals[1].strength_score > 100 /\ signals[1].strength = 100

\* the recommendation the threshold table of the claim gives for score s
Thresholds(s, rec) ==
    /\ rec = "STRONG_BUY" <=> s >= 30
    /\ rec = "BUY" <=> (15 <= s /\ s < 30)
    /\ rec = "HOLD" <=> (-15 < s /\ s < 15)
    /\ rec = "SELL" <=> (-30 < s /\ s <= -15)
    /\ rec = "STRONG_SELL" <=> s <= -30

\* C12: the recommendation is a function of the score alone, by the thresholds 30, 15,
\* -15, -30, and the unclamped sum and the reported clamped strength give the same
\* recommendation.
C12_RecommendationOfScore ==
    Reported =>
        LET out == signals[1]
        IN  /\ Thresholds(out.strength_score, out.recommendation)
            /\ Thresholds(out.strength, out.recommendation)

\* C12 witness: a report whose raw sum is below -100, reported as -100 and STRONG_SELL
C12_Witness ==
    /\ Reported
    /\ signals[1].strength_score < -100
    /\ signals[1].strength = -100
    /\ signals[1].recommendation = "STRONG_SELL"

----------------------------------------------------------------------------
(* Claims about the crossings *)

\* x is an entry of the list
InList(list, x) == \E k \in 1..Len(list) : list[k] = x

\* the list of (date, value) points has a point at row t of df
ReportedAt(list, df, t) == \E k \in 1..Len(list) : list[k][1] = df[t].date

\* res reports the crossings of column a over column b of df by the definition of the claim
CrossingsByDefinition(res, df, a, b) ==
    /\ \A t \in 2..Len(df) :
          /\ ReportedAt(res.golden, df, t)
                <=> GoldenCross(df[t - 1][a], df[t - 1][b], df[t][a], df[t][b])
          /\ ReportedAt(res.death, df, t)
                <=> DeathCross(df[t - 1][a], df[t - 1][b], df[t][a], df[t][b])
          /\ ~(ReportedAt(res.golden, df, t) /\ ReportedAt(res.death, df, t))
    /\ Len(df) >= 1 => ~ReportedAt(res.golden, df, 1) /\ ~ReportedAt(res.death, df, 1)

\* C13: for each pair of lines A/B (MACD/MACD_signal, KD_K/KD_D, MA5/MA20) a golden cross
\* is reported at bar t iff A - B <= 0 at t-1 and A - B > 0 at t, a death cross iff
\* A - B >= 0 at t-1 and A - B < 0 at t; the detect_* functions report by this definition
\* at every bar, get_daytrading_signals reports by it at the latest bar (MACD and KD), and
\* no golden and death cross of one pair are reported for the same bar.
C13_CrossDefinition ==
    /\ crossovers.ma # None =>
          CrossingsByDefinition(crossovers.ma[1], chart_df, "MA5", "MA20")
    /\ crossovers.kd # None =>
          CrossingsByDefinition(crossovers.kd[1], chart_df, "KD_K", "KD_D")
    /\ crossovers.macd # None =>
          CrossingsByDefinition(crossovers.macd[1], chart_df, "MACD", "MACD_signal")
    /\ Reported =>
          LET latest == sig_df[1].latest
              prev == sig_df[1].prev
              list == signals[1].signals
              macdG == InList(list, "MACD golden cross (buy)")
              macdD == InList(list, "MACD death cross (sell)")
              kdG == InList(list, "KD low golden cross (strong buy)")
                        \/ InList(list, "KD golden cross (buy)")
              kdD == InList(list, "KD high death cross (strong sell)")
                        \/ InList(list, "KD death cross (sell)")
          IN  /\ macdG <=> GoldenCross(prev.MACD, prev.MACD_signal,
                                       latest.MACD, latest.MACD_signal)
              /\ macdD <=> DeathCross(prev.MACD, prev.MACD_signal,
                                      latest.MACD, latest.MACD_signal)
              /\ kdG <=> GoldenCross(prev.KD_K, prev.KD_D, latest.KD_K, latest.KD_D)
              /\ kdD <=> DeathCross(prev.KD_K, prev.KD_D, latest.KD_K, latest.KD_D)
              /\ ~(macdG /\ macdD) /\ ~(kdG /\ kdD)

\* C13 witness: MACD touches its signal line at the first bar, is above it at the second
\* and below it at the third; detect_macd_crossovers has reported the golden and the death
\* cross and get_daytrading_signals the death cross of the latest bar
C13_Witness ==
    /\ Len(chart_df) = 3
    /\ chart_df[1].MACD = chart_df[1].MACD_signal
    /\ crossovers.macd # None
    /\ Len(crossovers.macd[1].golden) = 1 /\ crossovers.macd[1].golden[1][1] = DateStr(2)
    /\ Len(crossovers.macd[1].death) = 1 /\ crossovers.macd[1].death[1][1] = DateStr(3)
    /\ Reported /\ InList(signals[1].signals, "MACD death cross (sell)")

----------------------------------------------------------------------------
(* Claims about the ADX and OBV rules and undefined inputs *)

\* what the entries with the labels up and down in the triggered list contribute
Entries(list, up, x, down, y) ==
    (IF InList(list, up) THEN x ELSE 0) + (IF InList(list, down) THEN y ELSE 0)

\* C14: the ADX rule contributes +10 when ADX > 25 and +DI > -DI, -10 when ADX > 25 and
\* -DI > +DI, and nothing in every other case (ADX <= 25, or +DI equal to -DI).
C14_ADXRule ==
    Reported =>
        LET latest == sig_df[1].latest
            adx == Entries(signals[1].signals, "ADX strong uptrend", 10,
                           "ADX strong downtrend", -10)
            strong == Defined(latest.ADX) /\ latest.ADX > 25
            known == Defined(latest.DI_plus) /\ Defined(latest.DI_minus)
        IN  adx = IF strong /\ known /\ latest.DI_plus > latest.DI_minus THEN 10
                  ELSE IF strong /\ known /\ latest.DI_minus > latest.DI_plus THEN -10
                  ELSE 0

\* C15: the OBV divergence rule contributes -15 only when close is up over the last 5 bars
\* while OBV is down over the same span, +15 only when close is down while OBV is up, and
\* nothing when close or OBV is unchanged over that span.
C15_OBVRule ==
    Reported =>
        LET latest == sig_df[1].latest
            old == sig_df[1].old
            obv == Entries(signals[1].signals, "OBV top divergence (sell)", -15,
                           "OBV bottom divergence (buy)", 15)
            known == Defined(latest.close) /\ Defined(old.close)
                        /\ Defined(latest.OBV) /\ Defined(old.OBV)
        IN  /\ obv = -15 => (known /\ latest.close > old.close /\ latest.OBV < old.OBV)
            /\ obv = 15 => (known /\ latest.close < old.close /\ latest.OBV > old.OBV)
            /\ (known /\ (latest.close = old.close \/ latest.OBV = old.OBV)) => obv = 0

\* one of the values is undefined
AnyUndefined(S) == \E x \in S : ~Defined(x)

\* none of the labels is in the triggered list
Silent(list, labels) == \A l \in labels : ~InList(list, l)

\* C16: a rule any of whose indicator inputs is undefined at t or t-1 is skipped: none of
\* its entries (and so none of its contributions) is in the report.
C16_UndefinedSkipped ==
    Reported =>
        LET df == sig_df[1]
            l == df.latest
            p == df.prev
            list == signals[1].signals
        IN  /\ AnyUndefined({l.MACD, l.MACD_signal, p.MACD, p.MACD_signal}) =>
                  Silent(list, {"MACD golden cross (buy)", "MACD death cross (sell)"})
            /\ AnyUndefined({l.KD_K, l.KD_D, p.KD_K, p.KD_D}) =>
                  Silent(list, {"KD low golden cross (strong buy)", "KD golden cross (buy)",
                                "KD high death cross (strong sell)", "KD death cross (sell)"})
            /\ AnyUndefined({l.RSI}) =>
                  Silent(list, {"RSI oversold (buy)", "RSI overbought (sell)"})
            /\ AnyUndefined({l.Williams_R}) =>
                  Silent(list, {"Williams %R overbought (sell)", "Williams %R oversold (buy)"})
            /\ AnyUndefined({l.ADX, l.DI_plus, l.DI_minus}) =>
                  Silent(list, {"ADX strong uptrend", "ADX strong downtrend"})
            /\ AnyUndefined({l.CCI}) =>
                  Silent(list, {"CCI overbought (sell)", "CCI oversold (buy)"})
            /\ (df.len >= 5 /\ AnyUndefined({l.close, l.OBV, df.old.close, df.old.OBV})) =>
                  Silent(list, {"OBV top divergence (sell)", "OBV bottom divergence (buy)"})
            /\ AnyUndefined({l.close, l.BB_upper, l.BB_lower}) =>
                  Silent(list, {"above Bollinger upper", "below Bollinger lower"})
            /\ AnyUndefined({l.Volume_Ratio}) => Silent(list, {"volume surge"})
            /\ AnyUndefined({l.ROC_5}) =>
                  Silent(list, {"strong short-term momentum", "weak short-term momentum"})

----------------------------------------------------------------------------
(* Claims about short frames *)

\* C17: get_daytrading_signals returns None, without raising, whenever the frame has fewer
\* than 2 bars (the empty frame included), and a report with strength, recommendation and
\* triggered list whenever it has at least 2 bars; main shows the warning in the first
\* case and the report in the second.
C17_NoSignalBelowTwoBars ==
    last.op = "get_daytrading_signals" =>
        /\ ~last.raised
        /\ sig_df[1].len < 2 =>
              (signals = None /\ SignalSummary(signals).shown = "warning")
        /\ sig_df[1].len >= 2 =>
              /\ signals # None
              /\ {"strength", "recommendation", "signals"} \subseteq DOMAIN signals[1]
              /\ SignalSummary(signals).shown = "report"
              /\ SignalSummary(signals).strength = signals[1].strength

\* C17 witness: the call on the empty frame has returned None
C17_Witness ==
    last.op = "get_daytrading_signals" /\ sig_df[1].len = 0 /\ signals = None

----------------------------------------------------------------------------
(* Claims about calculate_support_resistance *)

\* calculate_support_resistance has returned
Computed == last.op = "calculate_support_resistance" /\ levels # None

\* the prices of the list, in order
Prices(ls) == [i \in 1..Len(ls) |-> ls[i].price]

\* C18: in every result the support list is sorted by descending price with every price
\* <= the current close, the resistance list is sorted by ascending price with every
\* price >= the current close, and each list has at most num_levels entries.
C18_LevelsOrdered ==
    Computed =>
        LET out == levels[1]
            s == Prices(out.support)
            r == Prices(out.resistance)
        IN  /\ \A i \in 1..Len(s) : s[i] <= out.current_price
            /\ \A i \in 1..Len(s), j \in 1..Len(s) : i < j => s[i] >= s[j]
            /\ \A i \in 1..Len(r) : r[i] >= out.current_price
            /\ \A i \in 1..Len(r), j \in 1..Len(r) : i < j => r[i] <= r[j]
            /\ Len(s) <= sr_df[1].num_levels
            /\ Len(r) <= sr_df[1].num_levels

\* C18 witness: more than three candidates of each class, returned as three supports below
\* the close and three resistances of which the first is at the close
C18_Witness ==
    /\ Computed
    /\ sr_df[1].num_levels = 3
    /\ Len(levels[1].kept_support) > 3 /\ Len(levels[1].kept_resistance) > 3
    /\ Len(levels[1].support) = 3 /\ Len(levels[1].resistance) = 3
    /\ levels[1].resistance[1].price = levels[1].current_price
    /\ levels[1].support[1].price < levels[1].current_price

\* the relative distance of price to the kept price is below 0.5% (kept > 0)
WithinHalfPercent(price, kept) == Abs(price - kept) * 1000 < 5 * kept

\* the merge of the claim over a sorted list: an entry is discarded iff it is within 0.5%
\* of the previously kept entry
RECURSIVE MergedFrom(_, _)
MergedFrom(kept, rest) ==
    IF rest = <<>> THEN kept
    ELSE MergedFrom(IF WithinHalfPercent(Head(rest).price, kept[Len(kept)].price)
                    THEN kept ELSE Append(kept, Head(rest)),
                    Tail(rest))

Merged(ls) == IF ls = <<>> THEN <<>> ELSE MergedFrom(<<ls[1]>>, Tail(ls))

\* every price of the list is positive
AllPositive(ls) == \A i \in 1..Len(ls) : ls[i].price > 0

\* C19: in post-processing a candidate is discarded iff its relative price distance to the
\* previously kept entry of its class is < 0.5%, so that a candidate at a distance of 0.5%
\* or more survives (stated for lists of positive prices).
C19_MergeBelowHalfPercent ==
    Computed =>
        LET out == levels[1]
        IN  /\ AllPositive(out.sorted_support) =>
                  out.kept_support = Merged(out.sorted_support)
            /\ AllPositive(out.sorted_resistance) =>
                  out.kept_resistance = Merged(out.sorted_resistance)

\* the ATR candidates of the frame
AtrSupport(latest) == Level(latest.close - 2 * latest.ATR, <<"ATR 2x stop">>, "strong")
AtrResistance(latest) == Level(latest.close + 2 * latest.ATR, <<"ATR 2x target">>, "medium")

\* C20 (as stated): whenever the ATR of the latest row is defined, whatever its value, the
\* candidate support close - 2*ATR and the candidate resistance close + 2*ATR are both
\* added before post-processing.
C20_ATRAlwaysAdded ==
    (Computed /\ Defined(sr_df[1].latest.ATR)) =>
        /\ InList(levels[1].cand_support, AtrSupport(sr_df[1].latest))
        /\ InList(levels[1].cand_resistance, AtrResistance(sr_df[1].latest))

\* C20 (amended): whenever the ATR of the latest row is defined and greater than 0, both
\* candidates are added before post-processing, however they compare to the close and
\* whether or not they survive post-processing; an ATR that is undefined or 0 adds neither.
C20_ATRAddedWhenPositive ==
    Computed =>
        LET latest == sr_df[1].latest
            out == levels[1]
            added == /\ InList(out.cand_support, AtrSupport(latest))
                     /\ InList(out.cand_resistance, AtrResistance(latest))
            absent == /\ \A i \in 1..Len(out.cand_support) :
                            out.cand_support[i].desc # <<"ATR 2x stop">>
                      /\ \A i \in 1..Len(out.cand_resistance) :
                            out.cand_resistance[i].desc # <<"ATR 2x target">>
        IN  IF Defined(latest.ATR) /\ latest.ATR > 0 THEN added ELSE absent

\* C20 witness: a positive ATR whose two candidates were added and then left out of the
\* returned lists by post-processing
C20_Witness ==
    /\ Computed
    /\ sr_df[1].latest.ATR = 50
    /\ InList(levels[1].cand_support, AtrSupport(sr_df[1].latest))
    /\ InList(levels[1].cand_resistance, AtrResistance(sr_df[1].latest))
    /\ ~InList(levels[1].support, AtrSupport(sr_df[1].latest))
    /\ ~InList(levels[1].resistance, AtrResistance(sr_df[1].latest))

\* C21: every level returned by calculate_support_resistance has a strictly positive
\* price, also when an indicator column is absent, the lower Bollinger band is not
\* positive or 2 * ATR >= close.
C21_PositivePrices ==
    Computed =>
        /\ \A i \in 1..Len(levels[1].support) : levels[1].support[i].price > 0
        /\ \A i \in 1..Len(levels[1].resistance) : levels[1].resistance[i].price > 0

\* the number of entries of the list with this description
CountDesc(ls, desc) == Cardinality({ i \in 1..Len(ls) : ls[i].desc = <<desc>> })

\* the value v of a column gave a support (described as sup) only if it is strictly below
\* the close, a resistance (described as res) only if it is strictly above, and at most
\* one of the two
ClassifiedStrictly(out, v, sup, res) ==
    /\ CountDesc(out.cand_support, sup) + CountDesc(out.cand_resistance, res) <= 1
    /\ CountDesc(out.cand_support, sup) = 1 => (Defined(v) /\ v < out.current_price)
    /\ CountDesc(out.cand_resistance, res) = 1 => (Defined(v) /\ v > out.current_price)

\* C22: each defined MA5/MA10/MA20/MA60, Bollinger band, SAR and VWAP value of the latest
\* row yields at most one candidate level: a support only if it is strictly below the
\* current close, a resistance only if it is strictly above; a value equal to the close
\* yields no level.
C22_StrictClassification ==
    Computed =>
        LET out == levels[1]
            l == sr_df[1].latest
        IN  /\ ClassifiedStrictly(out, l.MA5, "MA5 support", "MA5 resistance")
            /\ ClassifiedStrictly(out, l.MA10, "MA10 support", "MA10 resistance")
            /\ ClassifiedStrictly(out, l.MA20, "MA20 support", "MA20 resistance")
            /\ ClassifiedStrictly(out, l.MA60, "MA60 support", "MA60 resistance")
            /\ ClassifiedStrictly(out, l.BB_lower, "Bollinger lower support", "no level")
            /\ ClassifiedStrictly(out, l.BB_upper, "no level", "Bollinger upper resistance")
            /\ ClassifiedStrictly(out, l.SAR, "SAR trailing stop", "SAR resistance")
            /\ ClassifiedStrictly(out, l.VWAP, "VWAP support", "VWAP resistance")

----------------------------------------------------------------------------
(* Claims about calculate_stop_loss_take_profit *)

\* calculate_stop_loss_take_profit has returned
StopsComputed == last.op = "calculate_stop_loss_take_profit" /\ sl_tp # None

\* y is x to 2 decimals: a hundredth at most half a hundredth away from x
To2Decimals(y, x) == y % Hundredth = 0 /\ 2 * Abs(y - x) <= Hundredth

\* every value of the returned dict is the value of the claim, to 2 decimals (the ATR
\* values are even numbers of ten-thousandths, so that 1.5 * atr is (3 * atr) \div 2)
StopValues(a, out) ==
    /\ To2Decimals(out.stop_loss, a.current_price - 2 * a.atr)
    /\ To2Decimals(out.take_profit, a.current_price + 2 * a.atr * a.risk_reward_ratio)
    /\ To2Decimals(out.conservative_stop, a.current_price - (3 * a.atr) \div 2)
    /\ To2Decimals(out.aggressive_stop, a.current_price - (5 * a.atr) \div 2)
    /\ To2Decimals(out.risk_amount, 2 * a.atr)
    /\ To2Decimals(out.reward_amount, 2 * a.atr * a.risk_reward_ratio)

\* the stops are ordered around the price
StopOrder(a, out) ==
    /\ out.aggressive_stop <= out.stop_loss
    /\ out.stop_loss <= out.conservative_stop
    /\ out.conservative_stop <= a.current_price
    /\ a.current_price <= out.take_profit

\* the result for price 100, ATR 2 and ratio 2 is 96, 108, 97, 95, 4, 8
StopExample(a, out) ==
    (a.current_price = 1000000 /\ a.atr = 20000 /\ a.risk_reward_ratio = 2) =>
        /\ out.stop_loss = 960000 /\ out.take_profit = 1080000
        /\ out.conservative_stop = 970000 /\ out.aggressive_stop = 950000
        /\ out.risk_amount = 40000 /\ out.reward_amount = 80000

\* C23 (as stated): the returned values are price - 2*atr, price + 2*atr*r,
\* price - 1.5*atr, price - 2.5*atr, 2*atr and 2*atr*r to 2 decimals; for atr >= 0 and
\* r >= 1 they are ordered aggressive <= stop <= conservative <= price <= take_profit and
\* reward_amount = r * risk_amount; (100, 2, 2) gives 96, 108, 97, 95, 4, 8.
C23_StopsExact ==
    StopsComputed =>
        LET a == sl_args[1]
            out == sl_tp[1]
        IN  /\ StopValues(a, out)
            /\ StopOrder(a, out)
            /\ out.reward_amount = a.risk_reward_ratio * out.risk_amount
            /\ StopExample(a, out)

\* C23 (amended): as stated, for a price of at most two decimals, except that
\* reward_amount = r * risk_amount holds when 2*atr has at most two decimals and
\* otherwise only up to the rounding: the two differ by at most (r + 1) / 2 hundredths.
C23_StopsRounded ==
    StopsComputed =>
        LET a == sl_args[1]
            out == sl_tp[1]
            r == a.risk_reward_ratio
        IN  /\ StopValues(a, out)
            /\ StopOrder(a, out)
            /\ (2 * a.atr) % Hundredth = 0 => out.reward_amount = r * out.risk_amount
            /\ 2 * Abs(out.reward_amount - r * out.risk_amount) <= (r + 1) * Hundredth
            /\ StopExample(a, out)

\* C23 witness: price 100 and ATR 1.232 with ratio 2 give the risk 2.46 and the reward
\* 4.93
C23_Witness ==
    /\ StopsComputed
    /\ sl_args[1].current_price = 1000000 /\ sl_args[1].atr = 12320
    /\ sl_args[1].risk_reward_ratio = 2
    /\ sl_tp[1].stop_loss = 975400
    /\ sl_tp[1].risk_amount = 24600 /\ sl_tp[1].reward_amount = 49300

--------------------------------------------------------------------------------
(* Claims about calculate_technical_indicators *)

\* the indicator function has returned
IndicatorsComputed == ind # None /\ ind[1].out # None

\* high >= max(open, close) >= min(open, close) >= low >= 0 and volume >= 0
WellFormedBar(b) ==
    /\ b.high >= Max(b.open, b.close)
    /\ Min(b.open, b.close) >= b.low
    /\ b.low >= 0
    /\ b.volume >= 0

\* C25: a frame with a bar that violates high >= max(open, close) >=
\* min(open, close) >= low >= 0, or with a negative volume, is rejected:
\* calculate_technical_indicators fails instead of returning columns
C25_MalformedRejected ==
    (IndicatorsComputed /\ \E i \in 1..Len(ind[1].df) : ~WellFormedBar(ind[1].df[i]))
        => ind[1].out[1].raised

--------------------------------------------------------------------------------
(* Claims about AIAnalyzer.search_news_events *)

\* search_news_events has returned
NewsSearched == last.op = "search_news_events" /\ analyzer[1].result # None

\* the record get_news_cache finds for the symbol of the last call: a call
\* without force_update changes neither the table nor the clock
ValidCache == NewsResult(news_cache, last.symbol, now)

\* C26: with force_update false and a stored news record of the symbol that has
\* not expired, search_news_events returns the cached content with source
\* 'cache' and is_fallback False and makes no Perplexity request
C26_CacheServed ==
    (NewsSearched /\ ~analyzer[1].force_update /\ ValidCache # None)
        => /\ analyzer[1].result[1].source = "cache"
           /\ ~analyzer[1].result[1].is_fallback
           /\ analyzer[1].result[1].content = ValidCache[1].content
           /\ analyzer[1].result[1].requests = 0

--------------------------------------------------------------------------------
(* Claims about data_fetcher.get_stock_data *)

\* this step is a call of get_stock_data that repeats the arguments of the call
\* before it, which was a cache miss that fetched bars and stored them
RepeatAfterStore ==
    /\ last'.op = "data_fetcher.get_stock_data"
    /\ last.op = "data_fetcher.get_stock_data"
    /\ fetcher[1].stored
    /\ ~fetcher[1].args[1].force_update
    /\ fetcher'[1].args = fetcher[1].args

\* every stored bar is stored after the step as it was before
BarsKept ==
    \A r \in BagToSet(stock_prices) : CopiesIn(r, stock_prices') = CopiesIn(r, stock_prices)

--------------------------------------------------------------------------------
(* Claims about a failing save_institutional_data *)

\* the frame of the call lacks a required column
MissingColumn(call) ==
    call.df # None /\ DOMAIN call.df[1].data # {} /\ RequiredColumns \ call.df[1].columns # {}

\* the frame of the call is complete and not empty
CompleteFrame(call) ==
    call.df # None /\ DOMAIN call.df[1].data # {} /\ call.df[1].columns = RequiredColumns

\* this step is a save_institutional_data that fails on a missing column, or on
\* a storage fault that strikes on the open connection after the DELETE
FailedInstSave ==
    /\ last'.op = "save_institutional_data"
    /\ ~last'.ok
    /\ MissingColumn(last') \/ (CompleteFrame(last') /\ connOpen)

\* C28: when save_institutional_data fails on a missing required column or on a
\* storage fault after the old rows were deleted, it returns False and every
\* row stored before (of the symbol and of any other) is stored unchanged
C28_FailedSaveKeepsRows ==
    [][FailedInstSave => (~last'.raised /\ institutional_trades' = institutional_trades)]_vars

\* a complete frame was struck by a fault while the symbol had a row that the
\* frame would have removed
C28_Witness ==
    /\ last.op = "save_institutional_data"
    /\ ~last.ok /\ ~last.raised /\ connOpen
    /\ CompleteFrame(last)
    /\ \E r \in BagToSet(institutional_trades) :
          r.symbol = last.symbol /\ \A d \in DOMAIN last.df[1].data : r.date # DateStr(d)

--------------------------------------------------------------------------------
(* Claims about AIAnalyzer._call_api *)

\* the outcomes after which the loop goes on
Retryable == {"429", "timeout", "request_error"}

\* _call_api has returned
Returned == call_api[1].pc = "done"

\* what a call may have done and returned
CallApiSafe ==
    LET c == call_api[1]
        n == Len(c.outcomes)
    IN  /\ c.requests = n
        /\ c.requests <= c.max_retries
        /\ \A i \in 1..(n - 1) : c.outcomes[i] \in Retryable
        /\ ~Returned => (c.result = "pending" /\ \A i \in 1..n : c.outcomes[i] \in Retryable)
        /\ Returned =>
              /\ c.result = "dict" <=> (n > 0 /\ c.outcomes[n] = "200")
              /\ c.result = "None" <=> ~(n > 0 /\ c.outcomes[n] = "200")
              /\ (\A i \in 1..n : c.outcomes[i] \in Retryable) => n = c.max_retries

\* C29: _call_api returns after at most max_retries requests: the result of the
\* first successful request; None right after a 401 or an unexpected exception;
\* None after the last attempt when every attempt ended in 429, a timeout or a
\* request error
C29_CallApiTerminates == [](CallApiSafe) /\ <>Returned

\* the default number of attempts was used up by a 429 and a timeout
C29_Witness ==
    /\ Returned
    /\ call_api[1].max_retries = DefaultRetries
    /\ call_api[1].outcomes = <<"429", "timeout">>
    /\ call_api[1].result = "None"

--------------------------------------------------------------------------------
(* Claims about validate_date_range *)

\* validate_date_range has returned
Validated == last.op = "validate_date_range" /\ date_range # None

\* the text is the date of day d as strftime writes it
IsDateOf(s, d) == s = DateStr(d)

\* C30: for two well-formed dates, in either order, past or to come, the result
\* is a pair of dates (start, end) with start <= end <= today; for a malformed
\* input it is (today - 30 days, today)
C30_RangeValid ==
    Validated =>
        LET r == date_range[1]
        IN  IF Parses(r.start_date) /\ Parses(r.end_date)
            THEN \E a \in (ArgDays \cup {r.today}), b \in (ArgDays \cup {r.today}) :
                    /\ IsDateOf(r.out[1], a) /\ IsDateOf(r.out[2], b)
                    /\ a <= b /\ b <= r.today
                    /\ StrLE(r.out[1], r.out[2])
            ELSE /\ IsDateOf(r.out[1], r.today - FallbackDays)
                 /\ IsDateOf(r.out[2], r.today)

\* both dates lay after today, the later one given first
C30_Witness ==
    /\ Validated
    /\ Parses(date_range[1].start_date) /\ Parses(date_range[1].end_date)
    /\ Strptime(date_range[1].end_date) > date_range[1].today
    /\ Strptime(date_range[1].start_date) > Strptime(date_range[1].end_date)
    /\ date_range[1].out = <<DateStr(date_range[1].today), DateStr(date_range[1].today)>>

====
